---- MODULE Spec2Model ----
(***************************************************************************)
(* A model of the rnix evaluator: the one-shot thunk cell                  *)
(* (eval/src/thunk.rs), and the call-by-need evaluator built on it         *)
(* (src/lib.rs, src/eval/operators.rs, src/eval2/string.rs and the         *)
(* builtins).                                                              *)
(*                                                                         *)
(* Several families of specifications share the module:                    *)
(*   SpecThunk / SpecForce  threads running the Thunk methods (and         *)
(*                          Eval::value_of) on one shared thunk, one       *)
(*                          memory access per step;                        *)
(*   Spec                   a single thread forcing thunks of a parsed     *)
(*                          program, one value_of call per step;           *)
(*   SpecOps / SpecCoerce   one source text per session, forced            *)
(*                          (SpecOps) or coerced to a string (SpecCoerce); *)
(*   SpecWriters            threads running update and put_value of        *)
(*                          src/thunk.rs, which assert before they lock;   *)
(*   SpecLib                one call of a library function per input       *)
(*                          (parse_nix_path, substring, Hash encode and    *)
(*                          decode);                                       *)
(*   SpecFiles              load_file and load_inline calls on one Eval.   *)
(***************************************************************************)
EXTENDS Integers, Sequences, FiniteSets, TLC

VARIABLES
  blackhole,  \* cargo feature "blackhole" of the build (thunk.rs:82/86)
  thunk,      \* the shared Thunk: mutex, loaded, value (the union TV)
  thr,        \* per thread: the method it runs, its position and its locals
  hist,       \* counters: calls started, step_thunk runs, loaded stores
  ev,         \* the Eval: its thunk arena, plus call counters
  prog,       \* the source text handed to load_inline
  out,        \* what the last value_of call returned
  environ     \* the process environment read by getEnv

vars == <<blackhole, thunk, thr, hist, ev, prog, out, environ>>

thunkVars == <<thunk, thr, hist>>
evalVars == <<ev, prog, out, environ>>

-----------------------------------------------------------------------------
(* Bounds *)

NThreads == 2
MaxCalls == 3
MaxLoads == 1
MaxForces == 3
MaxDepth == 12
MaxCoerce == 1

Threads == 1..NThreads
NoThread == 0

-----------------------------------------------------------------------------
(* Results: Ok(value), Err(message) of `bail!`, and a panic (assert!,      *)
(* unwrap, todo!) that unwinds the thread.                                 *)

None == [k |-> "None"]
Err(m) == [k |-> "Err", msg |-> m]
Panic(m) == [k |-> "Panic", msg |-> m]

\* ThunkCell
Blackhole == [k |-> "Blackhole"]
Expr(e, c) == [k |-> "Expr", e |-> e, c |-> c]
Apply(l, r) == [k |-> "Apply", lhs |-> l, rhs |-> r]

\* Value
VInt(n) == [k |-> "Int", n |-> n]
VRef(t) == [k |-> "Ref", t |-> t]

CellKinds == {"Expr", "Apply", "Blackhole"}
ValueKinds == {"Int", "Bool", "Null", "String", "Path", "List", "AttrSet",
               "Lambda", "Primop", "Ref"}

\* memory of the union after ManuallyDrop::drop / in the middle of a write
Dropped == [k |-> "Dropped"]
Torn == [k |-> "Torn"]

IsCell(x) == x.k \in CellKinds
IsValue(x) == x.k \in ValueKinds

-----------------------------------------------------------------------------
(* The shared thunk and the threads (eval/src/thunk.rs)                    *)

\* the literal expression `n`
EInt(n) == [k |-> "Int", n |-> n]

\* Thunk::new(t): mutex free, loaded = false, value.left = t
NewThunk(t) == [mutex |-> NoThread, loaded |-> FALSE, tv |-> t]

\* Thunk::complete(v): mutex free, loaded = true, value.right = v
CompleteThunk(v) == [mutex |-> NoThread, loaded |-> TRUE, tv |-> v]

\* cells and values the threads hand to update / put_value
ArgCells == {Expr(EInt(2), <<>>), Blackhole}
ArgValues == {VInt(7), VInt(8)}
InitThunks == {NewThunk(Expr(EInt(1), <<>>)), CompleteThunk(VInt(5))}

\* what a read of value.right can yield when no Value is stored there
GarbageReads == {Torn, VInt(0)}

Idle == [op |-> "idle", pc |-> "done", stk |-> <<>>, arg |-> None,
         ret |-> None]

\* Thunk::is_value: self.loaded.load(Acquire)
is_value(th) == th.loaded

\* return r to the caller's continuation, or finish the call
Return(s, r) ==
  IF s.stk = <<>> THEN [s EXCEPT !.pc = "done", !.ret = r]
  ELSE [s EXCEPT !.pc = Head(s.stk), !.stk = Tail(s.stk), !.ret = r]

\* a panic unwinds every frame of the thread
Unwind(s, m) == [s EXCEPT !.pc = "done", !.stk = <<>>, !.ret = Panic(m)]

\* `?`: value_of is the outermost frame, the error is its result
Bail(s, m) == [s EXCEPT !.pc = "done", !.stk = <<>>, !.ret = Err(m)]

Enter(s, pc, site) == [s EXCEPT !.pc = pc, !.stk = <<site>> \o s.stk]

CanCall(t) == thr[t].pc = "done" /\ hist.calls < MaxCalls

Called(t, s) ==
  /\ thr' = [thr EXCEPT ![t] = s]
  /\ hist' = [hist EXCEPT !.calls = @ + 1]
  /\ UNCHANGED <<blackhole, thunk, evalVars>>

Local(t, s) ==
  /\ thr' = [thr EXCEPT ![t] = s]
  /\ UNCHANGED <<blackhole, thunk, hist, evalVars>>

call_value_ref(t) ==
  /\ CanCall(t)
  /\ Called(t, [Idle EXCEPT !.op = "value_ref", !.pc = "vr_load"])

call_get_thunk(t) ==
  /\ CanCall(t)
  /\ Called(t, [Idle EXCEPT !.op = "get_thunk", !.pc = "gt_lock"])

call_update(t) ==
  /\ CanCall(t)
  /\ \E c \in ArgCells :
       Called(t, [Idle EXCEPT !.op = "update", !.pc = "up_lock", !.arg = c])

call_put_value(t) ==
  /\ CanCall(t)
  /\ \E v \in ArgValues :
       Called(t, [Idle EXCEPT !.op = "put_value", !.pc = "pv_lock",
                              !.arg = v])

\* value_of: ids = {thunk_id}; loop { match self.items[thunk_id].value_ref()
call_value_of(t) ==
  /\ CanCall(t)
  /\ Called(t, Enter([Idle EXCEPT !.op = "value_of"], "vr_load",
                     "vo_value_ref"))

(* Thunk::value_ref *)

\* if self.is_value() { ... } None
value_ref_load(t) ==
  /\ thr[t].pc = "vr_load"
  /\ Local(t, IF is_value(thunk) THEN [thr[t] EXCEPT !.pc = "vr_read"]
              ELSE Return(thr[t], None))

\* Some(unsafe { &(*self.value.get()).right })
value_ref_read(t) ==
  /\ thr[t].pc = "vr_read"
  /\ \E r \in (IF IsValue(thunk.tv) THEN {thunk.tv} ELSE GarbageReads) :
       Local(t, Return(thr[t], r))

(* Thunk::get_thunk *)

Lock(t, next) ==
  /\ thunk.mutex = NoThread
  /\ thunk' = [thunk EXCEPT !.mutex = t]
  /\ thr' = [thr EXCEPT ![t].pc = next]
  /\ UNCHANGED <<blackhole, hist, evalVars>>

\* assert!(!self.is_value(), msg) with the guard alive: a failed assertion
\* unwinds and the guard's drop unlocks the mutex
AssertNotLoaded(t, msg, next) ==
  IF is_value(thunk)
  THEN /\ thunk' = [thunk EXCEPT !.mutex = NoThread]
       /\ thr' = [thr EXCEPT ![t] = Unwind(thr[t], msg)]
       /\ UNCHANGED <<blackhole, hist, evalVars>>
  ELSE /\ thr' = [thr EXCEPT ![t].pc = next]
       /\ UNCHANGED <<blackhole, thunk, hist, evalVars>>

get_thunk_lock(t) ==
  /\ thr[t].pc = "gt_lock"
  /\ Lock(t, "gt_assert")

get_thunk_assert(t) ==
  /\ thr[t].pc = "gt_assert"
  /\ AssertNotLoaded(t, "cell loaded", "gt_take")

\* feature "blackhole": mem::replace(left, Blackhole); otherwise left.clone()
get_thunk_take(t) ==
  /\ thr[t].pc = "gt_take"
  /\ thunk' = [thunk EXCEPT !.tv = IF blackhole THEN Blackhole ELSE @]
  /\ thr' = [thr EXCEPT ![t] = [@ EXCEPT !.pc = "gt_unlock",
                                         !.ret = thunk.tv]]
  /\ UNCHANGED <<blackhole, hist, evalVars>>

get_thunk_unlock(t) ==
  /\ thr[t].pc = "gt_unlock"
  /\ thunk' = [thunk EXCEPT !.mutex = NoThread]
  /\ thr' = [thr EXCEPT ![t] = Return(@, @.ret)]
  /\ UNCHANGED <<blackhole, hist, evalVars>>

(* Thunk::update *)

update_lock(t) ==
  /\ thr[t].pc = "up_lock"
  /\ Lock(t, "up_assert")

update_assert(t) ==
  /\ thr[t].pc = "up_assert"
  /\ AssertNotLoaded(t, "must not be a value here", "up_drop")

\* ManuallyDrop::drop(&mut r.left)
update_drop(t) ==
  /\ thr[t].pc = "up_drop"
  /\ thunk' = [thunk EXCEPT !.tv = Dropped]
  /\ thr' = [thr EXCEPT ![t].pc = "up_write"]
  /\ UNCHANGED <<blackhole, hist, evalVars>>

\* r.left = ManuallyDrop::new(t)
update_write(t) ==
  /\ thr[t].pc = "up_write"
  /\ thunk' = [thunk EXCEPT !.tv = thr[t].arg]
  /\ thr' = [thr EXCEPT ![t].pc = "up_unlock"]
  /\ UNCHANGED <<blackhole, hist, evalVars>>

update_unlock(t) ==
  /\ thr[t].pc = "up_unlock"
  /\ thunk' = [thunk EXCEPT !.mutex = NoThread]
  /\ thr' = [thr EXCEPT ![t] = Return(@, None)]
  /\ UNCHANGED <<blackhole, hist, evalVars>>

(* Thunk::put_value *)

put_value_lock(t) ==
  /\ thr[t].pc = "pv_lock"
  /\ Lock(t, "pv_assert")

\* put_value without its assertion
put_value_unchecked(t) ==
  /\ thr[t].pc = "pv_assert"
  /\ thr' = [thr EXCEPT ![t].pc = "pv_drop"]
  /\ UNCHANGED <<blackhole, thunk, hist, evalVars>>

put_value_assert(t) ==
  /\ thr[t].pc = "pv_assert"
  /\ AssertNotLoaded(t, "double initialization", "pv_drop")

\* put_value setting loaded before the Value is written
put_value_store_first(t) ==
  /\ thr[t].pc = "pv_drop"
  /\ thunk' = [thunk EXCEPT !.tv = Dropped, !.loaded = TRUE]
  /\ thr' = [thr EXCEPT ![t].pc = "pv_write"]
  /\ UNCHANGED <<blackhole, hist, evalVars>>

\* ManuallyDrop::drop(&mut r.left)
put_value_drop(t) ==
  /\ thr[t].pc = "pv_drop"
  /\ thunk' = [thunk EXCEPT !.tv = Dropped]
  /\ thr' = [thr EXCEPT ![t].pc = "pv_write"]
  /\ UNCHANGED <<blackhole, hist, evalVars>>

\* r.right = ManuallyDrop::new(v)
put_value_write(t) ==
  /\ thr[t].pc = "pv_write"
  /\ thunk' = [thunk EXCEPT !.tv = thr[t].arg]
  /\ thr' = [thr EXCEPT ![t].pc = "pv_store"]
  /\ UNCHANGED <<blackhole, hist, evalVars>>

\* self.loaded.store(true, Release)
put_value_store(t) ==
  /\ thr[t].pc = "pv_store"
  /\ thunk' = [thunk EXCEPT !.loaded = TRUE]
  /\ thr' = [thr EXCEPT ![t].pc = "pv_unlock"]
  /\ hist' = [hist EXCEPT !.stores = @ + 1]
  /\ UNCHANGED <<blackhole, evalVars>>

\* end of the guard's block, then self.value_ref()
put_value_unlock(t) ==
  /\ thr[t].pc = "pv_unlock"
  /\ thunk' = [thunk EXCEPT !.mutex = NoThread]
  /\ thr' = [thr EXCEPT ![t] = Enter(@, "vr_load", "pv_unwrap")]
  /\ UNCHANGED <<blackhole, hist, evalVars>>

\* .unwrap()
put_value_unwrap(t) ==
  /\ thr[t].pc = "pv_unwrap"
  /\ Local(t, IF thr[t].ret.k = "None"
              THEN Unwind(thr[t], "unwrap on None")
              ELSE Return(thr[t], thr[t].ret))

(* src/thunk.rs: update and put_value assert before they take the mutex    *)

\* assert!(!self.is_value(), msg) with no guard alive: a failed assertion
\* unwinds and the mutex is not touched
AssertUnlocked(t, msg, next) ==
  Local(t, IF is_value(thunk) THEN Unwind(thr[t], msg)
           ELSE [thr[t] EXCEPT !.pc = next])

call_update_src(t) ==
  /\ CanCall(t)
  /\ \E c \in ArgCells :
       Called(t, [Idle EXCEPT !.op = "update", !.pc = "us_assert",
                              !.arg = c])

\* assert!(!self.is_value(), "must not be a value here");
update_src_assert(t) ==
  /\ thr[t].pc = "us_assert"
  /\ AssertUnlocked(t, "must not be a value here", "us_lock")

\* let _guard = self.mutex.lock();
update_src_lock(t) ==
  /\ thr[t].pc = "us_lock"
  /\ Lock(t, "up_drop")

call_put_value_src(t) ==
  /\ CanCall(t)
  /\ \E v \in ArgValues :
       Called(t, [Idle EXCEPT !.op = "put_value", !.pc = "ps_assert",
                              !.arg = v])

\* assert!(!self.is_value(), "double initialization");
put_value_src_assert(t) ==
  /\ thr[t].pc = "ps_assert"
  /\ AssertUnlocked(t, "double initialization", "ps_lock")

\* { let _guard = self.mutex.lock();
put_value_src_lock(t) ==
  /\ thr[t].pc = "ps_lock"
  /\ Lock(t, "pv_drop")

-----------------------------------------------------------------------------
(* Expressions (syntax::expr), as the parser hands them to the evaluator   *)

Some(x) == <<x>>
Nothing == <<>>

EVar(x) == [k |-> "Var", name |-> x]
EStr(body) == [k |-> "Str", body |-> body]
Plain(s) == [k |-> "Plain", s |-> s]
Quote(e) == [k |-> "Quote", quote |-> e]
ELambda(a, b) == [k |-> "Lambda", argument |-> a, body |-> b]
ArgPlain(a) == [k |-> "Plain", name |-> a]
ArgFormals(as, ell, at) ==
  [k |-> "Formals", args |-> as, ellipsis |-> ell, at |-> at]
Formal(n, d) == [arg_name |-> n, fallback |-> d]
EApply(l, r) == [k |-> "Apply", lhs |-> l, rhs |-> r]
EAttrSet(rec, as) == [k |-> "AttrSet", rec |-> rec, attrs |-> as]
BindPlain(path, rhs) == [k |-> "Plain", path |-> path, rhs |-> rhs]
BindInherit(from, as) == [k |-> "Inherit", from |-> from, attrs |-> as]
AttrPlain(p) == [k |-> "Plain", name |-> p]
AttrStr(body) == [k |-> "Str", body |-> body]
AttrDynamic(e) == [k |-> "Dynamic", quote |-> e]
EList(es) == [k |-> "List", elems |-> es]
ESelect(l, path, or) == [k |-> "Select", lhs |-> l, path |-> path, or |-> or]
ELet(bs, rhs) == [k |-> "Let", binds |-> bs, rhs |-> rhs]
EWith(env, e) == [k |-> "With", env |-> env, expr |-> e]
EPath(p) == [k |-> "Path", path |-> p]
EBinary(op, l, r) == [k |-> "Binary", op |-> op, lhs |-> l, rhs |-> r]
EUnary(op, e) == [k |-> "Unary", op |-> op, operand |-> e]

\* a binding `name = rhs;`
Bind(n, rhs) == BindPlain(<<AttrPlain(n)>>, rhs)

-----------------------------------------------------------------------------
(* Values, scopes and contexts (value.rs, thunk.rs)                        *)

VString(s, c) == [k |-> "String", string |-> s, context |-> c]
VList(ids) == [k |-> "List", ids |-> ids]
VAttrSet(m) == [k |-> "AttrSet", map |-> m]
VLambda(l, c) == [k |-> "Lambda", lambda |-> l, captures |-> c]
VPrimop(n) == [k |-> "Primop", name |-> n]
VBool(b) == [k |-> "Bool", b |-> b]
VPath(p) == [k |-> "Path", path |-> p]
VNull == [k |-> "Null"]

\* Scope::Static / Scope::Dynamic
Static(m) == [k |-> "Static", map |-> m]
Dynamic(t) == [k |-> "Dynamic", t |-> t]

\* StaticScope = HashMap<Ident, ThunkId>
EmptyScope == [x \in {} |-> 0]
insert(m, key, v) == (key :> v) @@ m

\* Context = Vector<Scope>: prepend is push_front, append is push_back
prepend(c, s) == <<s>> \o c

\* a `with` scope put in front of the lexical scopes
append_front(c, s) == <<s>> \o c

append(c, s) == c \o <<s>>

-----------------------------------------------------------------------------
(* The evaluator (src/lib.rs), single-threaded: every function takes the   *)
(* Eval state and returns the new state with its Result.  fuel bounds the  *)
(* depth of nested value_of calls; a computation that exhausts it has      *)
(* not terminated within the bound (Diverge).                              *)

R(st, r) == [st |-> st, r |-> r]
Ok(v) == [k |-> "Ok", v |-> v]
Diverge == [k |-> "Diverge"]
IsOk(x) == x.r.k = "Ok"
Unit == [k |-> "Unit"]

\* Arena::alloc
alloc(st, th) ==
  [st |-> [st EXCEPT !.items = Append(@, th), !.runs = Append(@, 0)],
   id |-> Len(st.items) + 1]

\* Eval::new_value
new_value(st, v) == alloc(st, CompleteThunk(v))

\* value_ref that never finds the Value
value_ref_unloaded(st, id) == Nothing

\* Thunk::value_ref on self.items[id]
value_ref(st, id) ==
  IF is_value(st.items[id]) THEN Some(st.items[id].tv) ELSE Nothing

\* Thunk::get_thunk on self.items[id]
get_thunk(st, id) ==
  IF is_value(st.items[id]) THEN R(st, Panic("cell loaded"))
  ELSE R([st EXCEPT !.items[id].tv = IF blackhole THEN Blackhole ELSE @],
         Ok(st.items[id].tv))

\* Thunk::put_value on self.items[id]
put_value(st, id, v) ==
  IF is_value(st.items[id]) THEN R(st, Panic("double initialization"))
  ELSE R([st EXCEPT !.items[id] = [@ EXCEPT !.loaded = TRUE, !.tv = v]],
         Ok(v))

\* the `?` operator: go on with an Ok result, return any other result
Try(x, F(_)) == IF IsOk(x) THEN F(x) ELSE x

\* `let a = x;`
Have(x, F(_)) == F(x)

RECURSIVE value_of_loop(_, _, _, _)
RECURSIVE step_thunk(_, _, _)
RECURSIVE step_eval_impl(_, _, _, _)
RECURSIVE step_fn(_, _, _, _)
RECURSIVE call_lambda(_, _, _, _, _, _)
RECURSIVE attrname(_, _, _, _)
RECURSIVE build_attrs(_, _, _, _, _, _)
RECURSIVE push_binding(_, _, _, _, _, _)

\* value_of that hands out the first Value it finds, a Ref included
value_of_loop_shallow(st, thunk_id, ids, fuel) ==
  IF fuel = 0 THEN R(st, Diverge)
  ELSE
    Try(IF value_ref(st, thunk_id) # Nothing
        THEN R(st, Ok(value_ref(st, thunk_id)[1]))
        ELSE Try(get_thunk(st, thunk_id), LAMBDA c :
             Try(step_thunk([c.st EXCEPT !.runs[thunk_id] = @ + 1], c.r.v,
                            fuel - 1), LAMBDA val :
             put_value(val.st, thunk_id, val.r.v))),
        LAMBDA v : R(v.st, [k |-> "Ok", v |-> v.r.v, at |-> thunk_id]))

\* Eval::value_of: the loop with its locals thunk_id and ids
value_of_loop(st, thunk_id, ids, fuel) ==
  IF fuel = 0 THEN R(st, Diverge)
  ELSE
    Try(IF value_ref(st, thunk_id) # Nothing
        THEN R(st, Ok(value_ref(st, thunk_id)[1]))
        ELSE Try(get_thunk(st, thunk_id), LAMBDA c :
             Try(step_thunk([c.st EXCEPT !.runs[thunk_id] = @ + 1], c.r.v,
                            fuel - 1), LAMBDA val :
             put_value(val.st, thunk_id, val.r.v))),
        LAMBDA v :
          IF v.r.v.k = "Ref"
          THEN IF v.r.v.t \in ids
               THEN R(v.st, Err("reference cycle"))
               ELSE value_of_loop(v.st, v.r.v.t, ids \cup {v.r.v.t}, fuel - 1)
          ELSE R(v.st, [k |-> "Ok", v |-> v.r.v, at |-> thunk_id]))

\* Eval::value_of
value_of(st, thunk_id, fuel) == value_of_loop(st, thunk_id, {thunk_id}, fuel)

\* Eval::value_str_of
value_str_of(st, ix, fuel) ==
  Try(value_of(st, ix, fuel), LAMBDA v :
      IF v.r.v.k = "String" THEN v
      ELSE R(v.st, Err("Wrong type: expected string")))

\* Eval::value_attrs_of
value_attrs_of(st, ix, fuel) ==
  Try(value_of(st, ix, fuel), LAMBDA v :
      IF v.r.v.k = "AttrSet" THEN R(v.st, Ok(v.r.v.map))
      ELSE R(v.st, Err("Wrong type: expected attrset")))

\* Eval::value_bool_of
value_bool_of(st, ix, fuel) ==
  Try(value_of(st, ix, fuel), LAMBDA v :
      IF v.r.v.k = "Bool" THEN R(v.st, Ok(v.r.v.b))
      ELSE R(v.st, Err("Wrong type: expected bool")))

\* Eval::value_list_of
value_list_of(st, ix, fuel) ==
  Try(value_of(st, ix, fuel), LAMBDA v :
      IF v.r.v.k = "List" THEN R(v.st, Ok(v.r.v.ids))
      ELSE R(v.st, Err("Wrong type: expected list")))

\* Eval::value_string_of: the text of a String, without its context
value_string_of(st, ix, fuel) ==
  Try(value_of(st, ix, fuel), LAMBDA v :
      IF v.r.v.k = "String" THEN R(v.st, Ok(v.r.v.string))
      ELSE R(v.st, Err("Wrong type: expected string")))

\* Eval::step_eval: step_eval_impl, with a frame added to an error's trace
step_eval(st, e, context, fuel) == step_eval_impl(st, e, context, fuel)

\* Eval::step_thunk
step_thunk(st, th, fuel) ==
  CASE th.k = "Expr" -> step_eval(st, th.e, th.c, fuel)
    [] th.k = "Apply" -> step_fn(st, th.lhs, th.rhs, fuel)
    [] th.k = "Blackhole" -> R(st, Err("infinite loop"))

\* the `for item in body` loop of Expr::Str, and of AttrName::Str
RECURSIVE str_parts(_, _, _, _, _, _, _)
str_parts(st, body, i, context, final_buf, str_context, fuel) ==
  IF i > Len(body) THEN R(st, Ok(VString(final_buf, str_context)))
  ELSE IF body[i].k = "Plain"
  THEN str_parts(st, body, i + 1, context, final_buf \o body[i].s,
                 str_context, fuel)
  ELSE
    Have(alloc(st, NewThunk(Expr(body[i].quote, context))), LAMBDA t :
    Try(value_str_of(t.st, t.id, fuel), LAMBDA q :
    str_parts(q.st, body, i + 1, context, final_buf \o q.r.v.string,
              str_context \cup q.r.v.context, fuel)))

\* the `for item in &context` loop of Expr::Var, then self.toplevel
RECURSIVE lookup_var(_, _, _, _, _)
lookup_var(st, context, i, ident, fuel) ==
  IF i > Len(context)
  THEN IF ident \in DOMAIN st.toplevel
       THEN R(st, Ok(VRef(st.toplevel[ident])))
       ELSE R(st, Err("Unbound variable"))
  ELSE
    Try(IF context[i].k = "Static" THEN R(st, Ok(context[i].map))
        ELSE value_attrs_of(st, context[i].t, fuel), LAMBDA scope :
        IF ident \in DOMAIN scope.r.v
        THEN R(scope.st, Ok(VRef(scope.r.v[ident])))
        ELSE lookup_var(scope.st, context, i + 1, ident, fuel))

\* Arena::alloc_extend over the elements of Expr::List
RECURSIVE alloc_extend(_, _, _, _, _)
alloc_extend(st, elems, i, context, ids) ==
  IF i > Len(elems) THEN [st |-> st, ids |-> ids]
  ELSE Have(alloc(st, NewThunk(Expr(elems[i], context))), LAMBDA a :
       alloc_extend(a.st, elems, i + 1, context, Append(ids, a.id)))

\* sel that takes an error of forcing lhs for a missing attribute
sel_swallow(st, lhs, rhs, fuel) ==
  Have(value_of(st, lhs, fuel), LAMBDA v :
       IF IsOk(v) /\ v.r.v.k = "AttrSet" /\ rhs \in DOMAIN v.r.v.map
       THEN R(v.st, Ok(Some(v.r.v.map[rhs])))
       ELSE R(v.st, Ok(Nothing)))

\* Eval::sel
sel(st, lhs, rhs, fuel) ==
  Try(value_of(st, lhs, fuel), LAMBDA v :
      IF v.r.v.k = "AttrSet" /\ rhs \in DOMAIN v.r.v.map
      THEN R(v.st, Ok(Some(v.r.v.map[rhs])))
      ELSE R(v.st, Ok(Nothing)))

\* the `for path_item in path` loop of Expr::Select: Ok(found thunk) or
\* Ok(failed attribute name)
RECURSIVE select_path(_, _, _, _, _, _)
select_path(st, lhs, path, i, context, fuel) ==
  IF i > Len(path) THEN R(st, Ok([failed |-> Nothing, lhs |-> lhs]))
  ELSE
    Try(attrname(st, path[i], context, fuel), LAMBDA an :
    Try(sel(an.st, lhs, an.r.v, fuel), LAMBDA it :
        IF it.r.v # Nothing
        THEN select_path(it.st, it.r.v[1], path, i + 1, context, fuel)
        ELSE R(it.st, Ok([failed |-> Some(an.r.v), lhs |-> lhs]))))

\* Eval::synthetic_variable
synthetic_variable(st, name, context) ==
  alloc(st, NewThunk(Expr(EVar(name), context)))

\* Eval::attrname
attrname(st, a, context, fuel) ==
  CASE a.k = "Plain" -> R(st, Ok(a.name))
    [] a.k = "Str" ->
         Try(str_parts(st, a.body, 1, context, "", {}, fuel), LAMBDA b :
             R(b.st, Ok(b.r.v.string)))
    [] a.k = "Dynamic" ->
         Have(alloc(st, NewThunk(Expr(a.quote, context))), LAMBDA val :
         Try(value_str_of(val.st, val.id, fuel), LAMBDA q :
             R(q.st, Ok(q.r.v.string))))

\* push_binding that forces the right-hand side when it binds it
push_binding_eager(st, scope, names, rhs, context, fuel) ==
  Try(attrname(st, names[1], context, fuel), LAMBDA key1 :
  Have(alloc(key1.st, NewThunk(Expr(rhs, context))), LAMBDA child_item :
  Try(value_of_loop(child_item.st, child_item.id, {child_item.id}, fuel),
      LAMBDA forced :
      R(forced.st, Ok(insert(scope, key1.r.v, child_item.id))))))

\* push_binding that starts every nested set empty
push_binding_fresh(st, scope, names, rhs, context, fuel) ==
  Try(attrname(st, names[1], context, fuel), LAMBDA key1 :
      IF Len(Tail(names)) = 0
      THEN Have(alloc(key1.st, NewThunk(Expr(rhs, context))),
                LAMBDA child_item :
                R(child_item.st,
                  Ok(insert(scope, key1.r.v, child_item.id))))
      ELSE
        Try(push_binding(key1.st, EmptyScope, Tail(names), rhs, context,
                         fuel), LAMBDA pushed :
        Have(new_value(pushed.st, VAttrSet(pushed.r.v)), LAMBDA child_item :
             R(child_item.st, Ok(insert(scope, key1.r.v, child_item.id))))))

\* Eval::push_binding: Ok(scope with the binding inserted)
push_binding(st, scope, names, rhs, context, fuel) ==
  Try(attrname(st, names[1], context, fuel), LAMBDA key1 :
      IF Len(Tail(names)) = 0
      THEN Have(alloc(key1.st, NewThunk(Expr(rhs, context))),
                LAMBDA child_item :
                R(child_item.st,
                  Ok(insert(scope, key1.r.v, child_item.id))))
      ELSE
        Try(IF key1.r.v \in DOMAIN scope
            THEN value_attrs_of(key1.st, scope[key1.r.v], fuel)
            ELSE R(key1.st, Ok(EmptyScope)), LAMBDA next_scope :
        Try(push_binding(next_scope.st, next_scope.r.v, Tail(names), rhs,
                         context, fuel), LAMBDA pushed :
        Have(new_value(pushed.st, VAttrSet(pushed.r.v)), LAMBDA child_item :
             R(child_item.st, Ok(insert(scope, key1.r.v, child_item.id)))))))

\* the `for attr in &attrs.0` loop of push_inherit
RECURSIVE inherit_attrs(_, _, _, _, _, _, _)
inherit_attrs(st, scope, attrs, i, binding_scope, context, fuel) ==
  IF i > Len(attrs) THEN R(st, Ok(scope))
  ELSE
    Try(attrname(st, attrs[i], context, fuel), LAMBDA name :
    Have(synthetic_variable(name.st, name.r.v, binding_scope), LAMBDA sv :
    inherit_attrs(sv.st, insert(scope, name.r.v, sv.id), attrs, i + 1,
                  binding_scope, context, fuel)))

\* Eval::push_inherit: Ok(scope with the inherited names inserted)
push_inherit(st, scope, from, attrs, context, fuel) ==
  IF from # Nothing
  THEN Have(alloc(st, NewThunk(Expr(from[1], context))), LAMBDA f :
       inherit_attrs(f.st, scope, attrs, 1, <<Dynamic(f.id)>>, context,
                     fuel))
  ELSE inherit_attrs(st, scope, attrs, 1, context, context, fuel)

\* the `for b in bindings` loop of build_attrs
RECURSIVE build_binds(_, _, _, _, _, _, _)
build_binds(st, binds, bindings, i, recursive_scope, context, fuel) ==
  IF i > Len(bindings) THEN R(st, Ok(binds))
  ELSE
    Try(IF bindings[i].k = "Plain"
        THEN push_binding(st, binds, bindings[i].path, bindings[i].rhs,
                          recursive_scope, fuel)
        ELSE push_inherit(st, binds, bindings[i].from, bindings[i].attrs,
                          context, fuel), LAMBDA pushed :
        build_binds(pushed.st, pushed.r.v, bindings, i + 1, recursive_scope,
                    context, fuel))

\* Eval::build_attrs
build_attrs(st, recursive, bindings, into, context, fuel) ==
  Try(build_binds(st, EmptyScope, bindings, 1,
                  IF recursive THEN prepend(context, Dynamic(into))
                  ELSE context,
                  context, fuel), LAMBDA binds :
  Try(put_value(binds.st, into, VAttrSet(binds.r.v)), LAMBDA put :
      R(put.st, Ok(Unit))))

RECURSIVE bind_formals(_, _, _, _, _, _, _)

\* bind_formals whose defaults see the captured context only
bind_formals_unscoped(st, args, i, fn_argument, fn_scope_id, fn_body_scope, context) ==
  IF i > Len(args) THEN R(st, Ok(fn_body_scope))
  ELSE IF args[i].arg_name \in DOMAIN fn_argument
  THEN bind_formals(st, args, i + 1, fn_argument, fn_scope_id,
                    insert(fn_body_scope, args[i].arg_name,
                           fn_argument[args[i].arg_name]),
                    context)
  ELSE IF args[i].fallback # Nothing
  THEN Have(alloc(st, NewThunk(Expr(args[i].fallback[1], context))),
            LAMBDA def_arg :
            bind_formals(def_arg.st, args, i + 1, fn_argument, fn_scope_id,
                         insert(fn_body_scope, args[i].arg_name, def_arg.id),
                         context))
  ELSE R(st, Err("Oh no"))

\* the `for arg in &fs.args` loop of call_lambda: Ok(fn_body_scope)
bind_formals(st, args, i, fn_argument, fn_scope_id, fn_body_scope, context) ==
  IF i > Len(args) THEN R(st, Ok(fn_body_scope))
  ELSE IF args[i].arg_name \in DOMAIN fn_argument
  THEN bind_formals(st, args, i + 1, fn_argument, fn_scope_id,
                    insert(fn_body_scope, args[i].arg_name,
                           fn_argument[args[i].arg_name]),
                    context)
  ELSE IF args[i].fallback # Nothing
  THEN Have(alloc(st, NewThunk(Expr(args[i].fallback[1],
                       prepend(context, Dynamic(fn_scope_id))))),
            LAMBDA def_arg :
            bind_formals(def_arg.st, args, i + 1, fn_argument, fn_scope_id,
                         insert(fn_body_scope, args[i].arg_name, def_arg.id),
                         context))
  ELSE R(st, Err("Oh no"))

\* Eval::call_lambda
call_lambda(st, arg, body, rhs, context, fuel) ==
  IF arg.k = "Plain"
  THEN IF rhs = Nothing
       THEN R(st, Err("trying to autocall a lambda with a plain argument"))
       ELSE step_eval(st, body,
                      prepend(context,
                              Static(insert(EmptyScope, arg.name, rhs[1]))),
                      fuel)
  ELSE
    Have(IF rhs # Nothing THEN [st |-> st, id |-> rhs[1]]
         ELSE new_value(st, VAttrSet(EmptyScope)), LAMBDA fn_arg_thunk :
    Try(value_attrs_of(fn_arg_thunk.st, fn_arg_thunk.id, fuel),
        LAMBDA fn_argument :
    Have(alloc(fn_argument.st, NewThunk(Blackhole)), LAMBDA fn_scope_id :
    Try(bind_formals(fn_scope_id.st, arg.args, 1, fn_argument.r.v,
                     fn_scope_id.id, EmptyScope, context), LAMBDA bound :
    Have(IF arg.at # Nothing
         THEN insert(bound.r.v, arg.at[1], fn_arg_thunk.id)
         ELSE bound.r.v, LAMBDA fn_body_scope :
    Try(put_value(bound.st, fn_scope_id.id, VAttrSet(fn_body_scope)),
        LAMBDA put :
        step_eval(put.st, body, prepend(context, Static(fn_body_scope)),
                  fuel)))))))

\* builtins::sys::get_env
get_env(st, varname, fuel) ==
  Try(value_str_of(st, varname, fuel), LAMBDA n :
      R([n.st EXCEPT !.env_reads = @ + 1],
        Ok(VString(IF n.r.v.string \in DOMAIN environ
                   THEN environ[n.r.v.string] ELSE "", {}))))

\* the primop `throw`: forces its argument to a string and fails with it
prim_throw(st, rhs, fuel) ==
  Try(value_str_of(st, rhs, fuel), LAMBDA m : R(m.st, Err("throw")))

-----------------------------------------------------------------------------
(* String coercion (eval2/string.rs, eval/builtins/strings.rs) and the     *)
(* operators (eval/operators.rs)                                           *)

\* CoerceOpts
CoerceOpts(extended, copy_to_store) ==
  [extended |-> extended, copy_to_store |-> copy_to_store]

\* i64::to_string
to_string(i) == ToString(i)

\* the result of a coercion: the String and the path set after it
Coerced(s, context) == [s |-> s, context |-> context]

RECURSIVE coerce_to_string(_, _, _, _, _)

\* the `for (i, item) in l.iter().enumerate()` loop of Value::List
RECURSIVE coerce_items(_, _, _, _, _, _, _)
coerce_items(st, l, i, output, context, opts, fuel) ==
  IF i > Len(l) THEN R(st, Ok(Coerced(output, context)))
  ELSE
    Try(coerce_to_string(st, l[i], context, opts, fuel), LAMBDA item :
        coerce_items(item.st, l, i + 1,
                     (IF i > 1 THEN output \o " " ELSE output)
                       \o item.r.v.s,
                     item.r.v.context, opts, fuel))

\* the String case forgets the context of the string
coerce_string_bare(x, context) == R(x.st, Ok(Coerced(x.r.v.string, context)))

\* Value::String((s, ctx)) => { context.extend(ctx); s.clone() }
coerce_string(x, context) ==
  R(x.st, Ok(Coerced(x.r.v.string, context \cup x.r.v.context)))

\* Eval::coerce_to_string (eval2/string.rs)
coerce_to_string(st, v, context, opts, fuel) ==
  IF fuel = 0 THEN R(st, Diverge)
  ELSE
    Try(value_of(st, v, fuel), LAMBDA x :
        CASE x.r.v.k = "Path" ->
               IF opts.copy_to_store THEN R(x.st, Err("copy to store"))
               ELSE R(x.st, Ok(Coerced(x.r.v.path, context)))
          [] x.r.v.k = "String" -> coerce_string(x, context)
          [] x.r.v.k = "Int" ->
               R(x.st, Ok(Coerced(to_string(x.r.v.n), context)))
          [] x.r.v.k = "Bool" /\ opts.extended ->
               R(x.st, Ok(Coerced(IF x.r.v.b THEN "1" ELSE "", context)))
          [] x.r.v.k = "Null" /\ opts.extended ->
               R(x.st, Ok(Coerced("", context)))
          [] x.r.v.k = "List" /\ opts.extended ->
               coerce_items(x.st, x.r.v.ids, 1, "", context, opts, fuel - 1)
          [] x.r.v.k = "AttrSet" ->
               IF "outPath" \in DOMAIN x.r.v.map
               THEN coerce_to_string(x.st, x.r.v.map["outPath"], context,
                                     opts, fuel - 1)
               ELSE R(x.st, Err("cannot coerce a set to a string"))
          [] OTHER -> R(x.st, Err("cannot convert to a string")))

RECURSIVE strings_coerce_to_string(_, _, _, _, _, _)

\* the `for (i, item) in items.iter().enumerate()` loop of Value::List
RECURSIVE strings_coerce_items(_, _, _, _, _, _, _, _)
strings_coerce_items(st, items, i, output, ctx, extended, copy_to_store, fuel) ==
  IF i > Len(items) THEN R(st, Ok(Coerced(output, ctx)))
  ELSE
    Try(strings_coerce_to_string(st, items[i], ctx, extended, copy_to_store,
                                 fuel), LAMBDA item :
        strings_coerce_items(item.st, items, i + 1,
                             (IF i > 1 THEN output \o " " ELSE output)
                               \o item.r.v.s,
                             item.r.v.context, extended, copy_to_store, fuel))

\* builtins::strings::coerce_to_string (eval/builtins/strings.rs)
strings_coerce_to_string(st, obj, ctx, extended, copy_to_store, fuel) ==
  IF fuel = 0 THEN R(st, Diverge)
  ELSE
    Try(value_of(st, obj, fuel), LAMBDA v :
        CASE v.r.v.k = "Path" -> R(v.st, Ok(Coerced(v.r.v.path, ctx)))
          [] v.r.v.k = "String" ->
               R(v.st, Ok(Coerced(v.r.v.string, ctx \cup v.r.v.context)))
          [] v.r.v.k = "Int" ->
               R(v.st, Ok(Coerced(to_string(v.r.v.n), ctx)))
          [] v.r.v.k = "Bool" /\ extended ->
               R(v.st, Ok(Coerced(IF v.r.v.b THEN "1" ELSE "", ctx)))
          [] v.r.v.k = "List" /\ extended ->
               strings_coerce_items(v.st, v.r.v.ids, 1, "", ctx, extended,
                                    copy_to_store, fuel - 1)
          [] OTHER -> R(v.st, Err("cannot convert to a string")))

\* builtins::strings::prim_to_string
prim_to_string(st, obj, fuel) ==
  Try(strings_coerce_to_string(st, obj, {}, TRUE, FALSE, fuel), LAMBDA c :
      R(c.st, Ok(VString(c.r.v.s, c.r.v.context))))

\* the macro t! of eval_binary: a thunk of the operand under the context
thunk_of(st, x, context) == alloc(st, NewThunk(Expr(x, context)))

\* Path::join, on a path and a relative or absolute path
join(p, s) == IF Len(s) > 0 /\ SubSeq(s, 1, 1) = "/" THEN s ELSE p \o "/" \o s

\* str::strip_prefix("/").unwrap_or(s)
strip_prefix(s) ==
  IF Len(s) > 0 /\ SubSeq(s, 1, 1) = "/" THEN SubSeq(s, 2, Len(s)) ELSE s

\* the keys of a map in the order its iterator yields them
RECURSIVE iter(_)
iter(keys) ==
  IF keys = {} THEN <<>>
  ELSE <<CHOOSE k \in keys : TRUE>> \o iter(keys \ {CHOOSE k \in keys : TRUE})

RECURSIVE eval_eq(_, _, _, _)

\* the `for (item1, item2) in l1.iter().zip(l2)` loop of eval_eq
RECURSIVE eq_items(_, _, _, _, _)
eq_items(st, l1, l2, i, fuel) ==
  IF i > Len(l1) THEN R(st, Ok(TRUE))
  ELSE Try(eval_eq(st, l1[i], l2[i], fuel), LAMBDA e :
           IF ~e.r.v THEN e ELSE eq_items(e.st, l1, l2, i + 1, fuel))

\* the `for (k, v) in a1.iter()` loop of eval_eq
RECURSIVE eq_attrs(_, _, _, _, _, _)
eq_attrs(st, a1, a2, keys, i, fuel) ==
  IF i > Len(keys) THEN R(st, Ok(TRUE))
  ELSE IF keys[i] \notin DOMAIN a2 THEN R(st, Ok(FALSE))
  ELSE Try(eval_eq(st, a1[keys[i]], a2[keys[i]], fuel), LAMBDA e :
           IF ~e.r.v THEN e ELSE eq_attrs(e.st, a1, a2, keys, i + 1, fuel))

\* the final match of eval_eq, on two values of one discriminant
eq_same_kind(st, lhs, rhs, fuel) ==
  CASE lhs.k = "Int" -> R(st, Ok(lhs.n = rhs.n))
    [] lhs.k = "String" -> R(st, Ok(lhs.string = rhs.string))
    [] lhs.k = "Path" -> R(st, Ok(lhs.path = rhs.path))
    [] lhs.k = "Null" -> R(st, Ok(TRUE))
    [] lhs.k = "Bool" -> R(st, Ok(lhs.b = rhs.b))
    [] lhs.k = "List" ->
         IF Len(lhs.ids) # Len(rhs.ids) THEN R(st, Ok(FALSE))
         ELSE eq_items(st, lhs.ids, rhs.ids, 1, fuel - 1)
    [] lhs.k = "AttrSet" ->
         IF "outPath" \in DOMAIN lhs.map /\ "outPath" \in DOMAIN rhs.map
         THEN R(st, Ok(lhs.map["outPath"] = rhs.map["outPath"]))
         ELSE IF Cardinality(DOMAIN lhs.map) # Cardinality(DOMAIN rhs.map)
         THEN R(st, Ok(FALSE))
         ELSE eq_attrs(st, lhs.map, rhs.map, iter(DOMAIN lhs.map), 1,
                       fuel - 1)
    [] lhs.k \in {"Lambda", "Primop"} -> R(st, Ok(FALSE))

\* eval_eq
eval_eq(st, lhs, rhs, fuel) ==
  IF fuel = 0 THEN R(st, Diverge)
  ELSE
    Try(value_of(st, lhs, fuel), LAMBDA l :
    Try(value_of(l.st, rhs, fuel), LAMBDA r :
        IF l.r.at = r.r.at THEN R(r.st, Ok(TRUE))
        ELSE IF l.r.v.k # r.r.v.k THEN R(r.st, Ok(FALSE))
        ELSE eq_same_kind(r.st, l.r.v, r.r.v, fuel)))

\* concat_strings
concat_strings(st, lhs, rhs, fuel) ==
  Try(value_of(st, lhs, fuel), LAMBDA l :
  Try(value_of(l.st, rhs, fuel), LAMBDA r :
      IF l.r.v.k = "Path" /\ r.r.v.k = "Path"
      THEN R(r.st, Ok(VPath(join(l.r.v.path, r.r.v.path))))
      ELSE IF l.r.v.k = "Path" /\ r.r.v.k = "String"
      THEN IF r.r.v.context = {}
           THEN R(r.st, Ok(VPath(join(l.r.v.path, r.r.v.string))))
           ELSE R(r.st, Err("a string that refers to a store path cannot be appended to a path"))
      ELSE
        Try(coerce_to_string(r.st, lhs, {},
                             CoerceOpts(FALSE, l.r.v.k = "String"), fuel),
            LAMBDA c1 :
        Try(coerce_to_string(c1.st, rhs, c1.r.v.context,
                             CoerceOpts(FALSE, l.r.v.k = "String"), fuel),
            LAMBDA c2 :
            R(c2.st, Ok(VString(c1.r.v.s \o c2.r.v.s, c2.r.v.context)))))))

\* plus_operator
plus_operator(st, lhs, rhs, fuel) ==
  Try(value_of(st, lhs, fuel), LAMBDA l :
      CASE l.r.v.k = "Path" ->
             Try(value_string_of(l.st, rhs, fuel), LAMBDA pathstr :
                 R(pathstr.st,
                   Ok(VPath(join(l.r.v.path, strip_prefix(pathstr.r.v))))))
        [] l.r.v.k = "Int" ->
             Try(value_of(l.st, rhs, fuel), LAMBDA r :
                 IF r.r.v.k = "Int"
                 THEN R(r.st, Ok(VInt(l.r.v.n + r.r.v.n)))
                 ELSE R(r.st, Err("cannot add value to an integer")))
        [] OTHER -> concat_strings(l.st, lhs, rhs, fuel))

\* Value::Bool(b) of an eval_eq result, negated for BinaryOp::Neq
eq_result(e, negate) == R(e.st, Ok(VBool(IF negate THEN ~e.r.v ELSE e.r.v)))

\* eval_binary, BinaryOp::Impl
eval_impl(st, bin, context, fuel) ==
  Have(thunk_of(st, bin.lhs, context), LAMBDA tl :
  Try(value_bool_of(tl.st, tl.id, fuel), LAMBDA lhs :
      IF ~lhs.r.v THEN R(lhs.st, Ok(VBool(TRUE)))
      ELSE Have(thunk_of(lhs.st, bin.rhs, context), LAMBDA tr :
           Try(value_bool_of(tr.st, tr.id, fuel), LAMBDA rhs :
               R(rhs.st, Ok(VBool(rhs.r.v)))))))

\* BinaryOp::Update that lets the left operand win
eval_update_left(st, bin, context, fuel) ==
  Have(thunk_of(st, bin.lhs, context), LAMBDA tl :
  Try(value_attrs_of(tl.st, tl.id, fuel), LAMBDA lhs :
  Have(thunk_of(lhs.st, bin.rhs, context), LAMBDA tr :
  Try(value_attrs_of(tr.st, tr.id, fuel), LAMBDA rhs :
      R(rhs.st, Ok(VAttrSet(lhs.r.v @@ rhs.r.v)))))))

\* eval_binary, BinaryOp::Update: lhs.insert(k, v) for every (k, v) of rhs
eval_update(st, bin, context, fuel) ==
  Have(thunk_of(st, bin.lhs, context), LAMBDA tl :
  Try(value_attrs_of(tl.st, tl.id, fuel), LAMBDA lhs :
  Have(thunk_of(lhs.st, bin.rhs, context), LAMBDA tr :
  Try(value_attrs_of(tr.st, tr.id, fuel), LAMBDA rhs :
      R(rhs.st, Ok(VAttrSet(rhs.r.v @@ lhs.r.v)))))))

\* eval_binary
eval_binary(st, bin, context, fuel) ==
  CASE bin.op = "Or" ->
         Have(thunk_of(st, bin.lhs, context), LAMBDA tl :
         Try(value_bool_of(tl.st, tl.id, fuel), LAMBDA lhs :
             IF lhs.r.v THEN R(lhs.st, Ok(VBool(TRUE)))
             ELSE step_eval(lhs.st, bin.rhs, context, fuel)))
    [] bin.op = "And" ->
         Have(thunk_of(st, bin.lhs, context), LAMBDA tl :
         Try(value_bool_of(tl.st, tl.id, fuel), LAMBDA lhs :
             IF lhs.r.v THEN step_eval(lhs.st, bin.rhs, context, fuel)
             ELSE R(lhs.st, Ok(VBool(FALSE)))))
    [] bin.op = "Add" ->
         Have(thunk_of(st, bin.lhs, context), LAMBDA tl :
         Have(thunk_of(tl.st, bin.rhs, context), LAMBDA tr :
              plus_operator(tr.st, tl.id, tr.id, fuel)))
    [] bin.op \in {"Eq", "Neq"} ->
         Have(thunk_of(st, bin.lhs, context), LAMBDA tl :
         Have(thunk_of(tl.st, bin.rhs, context), LAMBDA tr :
         Try(eval_eq(tr.st, tl.id, tr.id, fuel), LAMBDA e :
             eq_result(e, bin.op = "Neq"))))
    [] bin.op = "Impl" -> eval_impl(st, bin, context, fuel)
    [] bin.op = "Update" -> eval_update(st, bin, context, fuel)
    [] bin.op = "Concat" ->
         Have(thunk_of(st, bin.lhs, context), LAMBDA tl :
         Try(value_list_of(tl.st, tl.id, fuel), LAMBDA lhs :
         Have(thunk_of(lhs.st, bin.rhs, context), LAMBDA tr :
         Try(value_list_of(tr.st, tr.id, fuel), LAMBDA rhs :
             R(rhs.st, Ok(VList(lhs.r.v \o rhs.r.v)))))))

\* eval_unary, UnaryOp::Not
eval_unary(st, un, context, fuel) ==
  Have(thunk_of(st, un.operand, context), LAMBDA o :
  Try(value_bool_of(o.st, o.id, fuel), LAMBDA b :
      R(b.st, Ok(VBool(~b.r.v)))))

\* Op::Static(f) / Op::Dynamic(op): f(self, rhs)
call_primop(st, name, rhs, fuel) ==
  CASE name = "throw" -> prim_throw(st, rhs, fuel)
    [] name = "getEnv" -> get_env(st, rhs, fuel)
    [] name = "toString" -> prim_to_string(st, rhs, fuel)

\* Eval::step_fn
step_fn(st, lhs, rhs, fuel) ==
  Try(value_of(st, lhs, fuel), LAMBDA f :
      CASE f.r.v.k = "Lambda" ->
             call_lambda(f.st, f.r.v.lambda.argument, f.r.v.lambda.body,
                         Some(rhs), f.r.v.captures, fuel)
        [] f.r.v.k = "Primop" -> call_primop(f.st, f.r.v.name, rhs, fuel)
        [] OTHER -> R(f.st, Panic("not yet implemented: not a lambda")))

\* Eval::step_eval_impl
step_eval_impl(st, e, context, fuel) ==
  CASE e.k = "Int" -> R(st, Ok(VInt(e.n)))
    [] e.k = "Str" -> str_parts(st, e.body, 1, context, "", {}, fuel)
    [] e.k = "Apply" ->
         Have(alloc(st, NewThunk(Expr(e.lhs, context))), LAMBDA l :
         Have(alloc(l.st, NewThunk(Expr(e.rhs, context))), LAMBDA r :
         Have(alloc(r.st, NewThunk(Apply(l.id, r.id))), LAMBDA a :
              R(a.st, Ok(VRef(a.id))))))
    [] e.k = "Lambda" -> R(st, Ok(VLambda(e, context)))
    [] e.k = "Var" -> lookup_var(st, context, 1, e.name, fuel)
    [] e.k = "AttrSet" ->
         Have(alloc(st, NewThunk(Blackhole)), LAMBDA new_attrs :
         Try(build_attrs(new_attrs.st, e.rec, e.attrs, new_attrs.id, context,
                         fuel), LAMBDA built :
             R(built.st, Ok(VRef(new_attrs.id)))))
    [] e.k = "List" ->
         Have(alloc_extend(st, e.elems, 1, context, <<>>), LAMBDA ids :
              R(ids.st, Ok(VList(ids.ids))))
    [] e.k = "Select" ->
         Have(alloc(st, NewThunk(Expr(e.lhs, context))), LAMBDA lhs :
         Try(select_path(lhs.st, lhs.id, e.path, 1, context, fuel),
             LAMBDA walked :
             IF walked.r.v.failed # Nothing
             THEN IF e.or # Nothing
                  THEN step_eval(walked.st, e.or[1], context, fuel)
                  ELSE R(walked.st,
                         Err("Missing attribute " \o walked.r.v.failed[1]))
             ELSE R(walked.st, Ok(VRef(walked.r.v.lhs)))))
    [] e.k = "Let" ->
         Have(alloc(st, NewThunk(Blackhole)), LAMBDA bindings :
         Try(build_attrs(bindings.st, TRUE, e.binds, bindings.id, context,
                         fuel), LAMBDA built :
             step_eval(built.st, e.rhs,
                       prepend(context, Dynamic(bindings.id)), fuel)))
    [] e.k = "With" ->
         Have(alloc(st, NewThunk(Expr(e.env, context))), LAMBDA with_scope :
              step_eval(with_scope.st, e.expr,
                        append(context, Dynamic(with_scope.id)), fuel))
    [] e.k = "Path" -> R(st, Ok(VPath(e.path)))
    [] e.k = "Binary" -> eval_binary(st, e, context, fuel)
    [] e.k = "Unary" -> eval_unary(st, e, context, fuel)
    [] OTHER -> R(st, Err("unhandled expression"))

-----------------------------------------------------------------------------
(* Eval::new and the public operations                                     *)

\* Eval::with_config, after builtins::init_primops registered the primops
NewEval ==
  [items |-> <<CompleteThunk(VPrimop("throw")),
               CompleteThunk(VPrimop("getEnv")),
               CompleteThunk(VAttrSet(("throw" :> 1) @@ ("getEnv" :> 2)))>>,
   runs |-> <<0, 0, 0>>,
   toplevel |-> ("throw" :> 1) @@ ("builtins" :> 3),
   inline_counter |-> 0,
   env_reads |-> 0,
   forces |-> 0,
   known |-> {},
   demanded |-> {}]

NoOut == [op |-> "none", t |-> 0, r |-> None]

Stopped == out.r.k \in {"Panic", "Diverge"}

\* thunk ids a caller can read out of a returned Value
IdsOf(r) ==
  IF r.k # "Ok" THEN {}
  ELSE CASE r.v.k = "List" -> {r.v.ids[i] : i \in 1..Len(r.v.ids)}
         [] r.v.k = "AttrSet" -> {r.v.map[n] : n \in DOMAIN r.v.map}
         [] OTHER -> {}

-----------------------------------------------------------------------------
(* Source texts given to load_inline, as parsed                            *)

\* { a = n; }
SetA(n) == EAttrSet(FALSE, <<Bind("a", EInt(n))>>)
\* throw "s"
Throw(m) == EApply(EVar("throw"), EStr(<<Plain(m)>>))
\* { a }: a   and   { a, ... }: a
FormalsA(ell) ==
  ELambda(ArgFormals(<<Formal("a", Nothing)>>, ell, Nothing), EVar("a"))
\* { a = 1; b = 2; }
SetAB == EAttrSet(FALSE, <<Bind("a", EInt(1)), Bind("b", EInt(2))>>)

Programs ==
  [ \* builtins.getEnv "X"
    getenv |-> EApply(ESelect(EVar("builtins"), <<AttrPlain("getEnv")>>,
                              Nothing),
                      EStr(<<Plain("X")>>)),
    \* let x = x; in x
    let_x_x |-> ELet(<<Bind("x", EVar("x"))>>, EVar("x")),
    \* let x = throw "bang"; in 1
    lazy_let |-> ELet(<<Bind("x", Throw("bang"))>>, EInt(1)),
    \* (x: 1) (throw "bang")
    lazy_arg |-> EApply(ELambda(ArgPlain("x"), EInt(1)), Throw("bang")),
    \* [ (throw "a") 2 ]
    lazy_list |-> EList(<<Throw("a"), EInt(2)>>),
    \* let a = 1; in with { a = 2; }; a
    let_with |-> ELet(<<Bind("a", EInt(1))>>, EWith(SetA(2), EVar("a"))),
    \* with { a = 2; }; let a = 1; in a
    with_let |-> EWith(SetA(2), ELet(<<Bind("a", EInt(1))>>, EVar("a"))),
    \* with { a = 2; }; (a: a) 1
    with_lambda |-> EWith(SetA(2), EApply(ELambda(ArgPlain("a"), EVar("a")),
                                          EInt(1))),
    \* (a: with { a = 2; }; a) 1
    lambda_with |-> EApply(ELambda(ArgPlain("a"),
                                   EWith(SetA(2), EVar("a"))), EInt(1)),
    \* with { a = 2; }; ({ a }: a) { a = 1; }
    with_formals |-> EWith(SetA(2), EApply(FormalsA(FALSE), SetA(1))),
    \* rec { a = 1; b = with { a = 2; }; a; }.b
    rec_with |-> ESelect(EAttrSet(TRUE,
                           <<Bind("a", EInt(1)),
                             Bind("b", EWith(SetA(2), EVar("a")))>>),
                         <<AttrPlain("b")>>, Nothing),
    \* with { a = 3; }; a
    with_only |-> EWith(SetA(3), EVar("a")),
    \* with { a = 1; }; with { a = 2; }; a
    with_with |-> EWith(SetA(1), EWith(SetA(2), EVar("a"))),
    \* { a = 1; a = 2; }
    dup_set |-> EAttrSet(FALSE, <<Bind("a", EInt(1)), Bind("a", EInt(2))>>),
    \* let a = 1; a = 2; in a
    dup_let |-> ELet(<<Bind("a", EInt(1)), Bind("a", EInt(2))>>, EVar("a")),
    \* ({ a }: a) { a = 1; b = 2; }
    extra_arg |-> EApply(FormalsA(FALSE), SetAB),
    \* ({ a, ... }: a) { a = 1; b = 2; }
    ellipsis_arg |-> EApply(FormalsA(TRUE), SetAB) ]

EnvValues == {"one", "two"}

-----------------------------------------------------------------------------
(* The evaluator's operations as actions                                   *)

\* Eval::load_inline
load_inline(p) ==
  /\ ~Stopped
  /\ Len(prog) < MaxLoads
  /\ Have(alloc(ev, NewThunk(Expr(Programs[p], <<>>))), LAMBDA a :
          /\ ev' = [a.st EXCEPT !.inline_counter = (@ + 1) % 65536,
                                !.known = @ \cup {a.id}]
          /\ prog' = Append(prog, [name |-> p, root |-> a.id,
                                   file |-> ev.inline_counter])
          /\ out' = [op |-> "load_inline", t |-> a.id, r |-> None])
  /\ UNCHANGED <<blackhole, thunkVars, environ>>

\* Eval::value_of(t), called by the holder of a ThunkId
Force(t) ==
  /\ ~Stopped
  /\ ev.forces < MaxForces
  /\ Have(value_of(ev, t, MaxDepth), LAMBDA res :
          /\ ev' = [(IF res.r.k = "Diverge" THEN ev ELSE res.st)
                      EXCEPT !.forces = @ + 1,
                             !.demanded = @ \cup {t},
                             !.known = @ \cup IdsOf(res.r)]
          /\ out' = [op |-> "value_of", t |-> t, r |-> res.r])
  /\ UNCHANGED <<blackhole, thunkVars, prog, environ>>

\* the environment changes between two calls (std::env::set_var)
SetEnv(v) ==
  /\ ~Stopped
  /\ environ # ("X" :> v)
  /\ environ' = ("X" :> v)
  /\ UNCHANGED <<blackhole, thunkVars, ev, prog, out>>

Init ==
  /\ blackhole \in BOOLEAN
  /\ thunk = NewThunk(Blackhole)
  /\ thr = [t \in Threads |-> Idle]
  /\ hist = [calls |-> 0, runs |-> 0, stores |-> 0]
  /\ ev = NewEval
  /\ prog = <<>>
  /\ out = NoOut
  /\ environ \in {EmptyScope} \cup {("X" :> v) : v \in EnvValues}

Next ==
  \/ \E p \in DOMAIN Programs : load_inline(p)
  \/ \E t \in ev.known : Force(t)
  \/ \E v \in EnvValues : SetEnv(v)

Spec == Init /\ [][Next]_vars

-----------------------------------------------------------------------------
(* One evaluator session per source text: operators, selection, formals,   *)
(* string templates and coercion                                           *)

\* Eval::with_config with the constants and primops the texts below use:
\* true, false, null, toString, and two strings that refer to store paths
OpsEval ==
  [NewEval EXCEPT
     !.items = @ \o <<CompleteThunk(VBool(TRUE)),
                      CompleteThunk(VBool(FALSE)),
                      CompleteThunk(VNull),
                      CompleteThunk(VPrimop("toString")),
                      CompleteThunk(VString("sa", {"pa"})),
                      CompleteThunk(VString("sb", {"pb"}))>>,
     !.runs = @ \o <<0, 0, 0, 0, 0, 0>>,
     !.toplevel = @ @@ ("true" :> 4) @@ ("false" :> 5) @@ ("null" :> 6)
                    @@ ("toString" :> 7) @@ ("drvA" :> 8) @@ ("drvB" :> 9)]

\* a source text: its name, the operands it is built from, its parse
Src(n, args, e) == [name |-> n, args |-> args, e |-> e]

\* "s"
Lit(s) == EStr(<<Plain(s)>>)
\* { n = e; }
Set1(n, e) == EAttrSet(FALSE, <<Bind(n, e)>>)
\* x: x
Id == ELambda(ArgPlain("x"), EVar("x"))
\* { a, b ? a + 1 }: b
FormalsAB ==
  ELambda(ArgFormals(<<Formal("a", Nothing),
                       Formal("b", Some(EBinary("Add", EVar("a"),
                                                EInt(1))))>>,
                     FALSE, Nothing),
          EVar("b"))

BoolOperands == {EVar("true"), EVar("false"), EInt(1), Throw("x")}

SetOperands ==
  {EAttrSet(FALSE, <<>>),
   Set1("x", EInt(1)),
   Set1("y", EInt(2)),
   EAttrSet(FALSE, <<Bind("x", EInt(3)), Bind("y", EInt(4))>>)}

\* a -> b,  !a || b,  a || b,  a && b
Impl(a, b) == EBinary("Impl", a, b)
OrNot(a, b) == EBinary("Or", EUnary("Not", a), b)

\* let a = A; b = B; c = C; in [ ((a // b) // c) (a // (b // c)) (a // b)
\*                               a b c ]
Update3(a, b, c) ==
  ELet(<<Bind("a", a), Bind("b", b), Bind("c", c)>>,
       EList(<<EBinary("Update",
                       EBinary("Update", EVar("a"), EVar("b")), EVar("c")),
               EBinary("Update", EVar("a"),
                       EBinary("Update", EVar("b"), EVar("c"))),
               EBinary("Update", EVar("a"), EVar("b")),
               EVar("a"), EVar("b"), EVar("c")>>))

FormalsSources ==
  { \* ({ a, b ? a + 1 }: b) { a = 10; }
    Src("formals_default", <<>>,
        EApply(FormalsAB, Set1("a", EInt(10)))),
    \* ({ a, b ? a + 1 }: b) { a = 10; b = 5; }
    Src("formals_given", <<>>,
        EApply(FormalsAB,
               EAttrSet(FALSE, <<Bind("a", EInt(10)), Bind("b", EInt(5))>>))),
    \* ({ a ? b, b }: a) { b = 3; }
    Src("formals_later", <<>>,
        EApply(ELambda(ArgFormals(<<Formal("a", Some(EVar("b"))),
                                    Formal("b", Nothing)>>, FALSE, Nothing),
                       EVar("a")),
               Set1("b", EInt(3)))),
    \* ({ a, b }: a) { a = 1; }
    Src("formals_missing", <<>>,
        EApply(ELambda(ArgFormals(<<Formal("a", Nothing),
                                    Formal("b", Nothing)>>, FALSE, Nothing),
                       EVar("a")),
               Set1("a", EInt(1)))),
    \* let y = 1; f = { b ? y }: b; in let y = 2; in f { }
    Src("formals_captured_default", <<>>,
        ELet(<<Bind("y", EInt(1)),
               Bind("f", ELambda(ArgFormals(<<Formal("b", Some(EVar("y")))>>,
                                            FALSE, Nothing),
                                 EVar("b")))>>,
             ELet(<<Bind("y", EInt(2))>>,
                  EApply(EVar("f"), EAttrSet(FALSE, <<>>))))),
    \* let y = 1; f = { a }: y; in let y = 2; in f { a = 0; }
    Src("formals_captured_body", <<>>,
        ELet(<<Bind("y", EInt(1)),
               Bind("f", ELambda(ArgFormals(<<Formal("a", Nothing)>>,
                                            FALSE, Nothing),
                                 EVar("y")))>>,
             ELet(<<Bind("y", EInt(2))>>,
                  EApply(EVar("f"), Set1("a", EInt(0)))))),
    \* ({ a, b ? throw "x" }: a) { a = 10; }
    Src("formals_lazy", <<>>,
        EApply(ELambda(ArgFormals(<<Formal("a", Nothing),
                                    Formal("b", Some(Throw("x")))>>,
                                  FALSE, Nothing),
                       EVar("a")),
               Set1("a", EInt(10)))),
    \* 1 2
    Src("apply_int", <<>>, EApply(EInt(1), EInt(2))) }

SelectSources ==
  { \* { a = 1; }.a or (throw "x")
    Src("sel_hit", <<>>,
        ESelect(SetA(1), <<AttrPlain("a")>>, Some(Throw("x")))),
    \* let d = 2; in { a = 1; }.b or d
    Src("sel_miss_or", <<>>,
        ELet(<<Bind("d", EInt(2))>>,
             ESelect(SetA(1), <<AttrPlain("b")>>, Some(EVar("d"))))),
    \* { a = 1; }.b
    Src("sel_miss", <<>>, ESelect(SetA(1), <<AttrPlain("b")>>, Nothing)),
    \* { c = { a = 1; }; }.c.b or 2
    Src("sel_deep_miss_or", <<>>,
        ESelect(Set1("c", SetA(1)), <<AttrPlain("c"), AttrPlain("b")>>,
                Some(EInt(2)))),
    \* { c = { a = 1; }; }.c.b
    Src("sel_deep_miss", <<>>,
        ESelect(Set1("c", SetA(1)), <<AttrPlain("c"), AttrPlain("b")>>,
                Nothing)),
    \* (throw "x").a or 2
    Src("sel_throw_lhs", <<>>,
        ESelect(Throw("x"), <<AttrPlain("a")>>, Some(EInt(2)))),
    \* { c = throw "x"; }.c.b or 2
    Src("sel_throw_mid", <<>>,
        ESelect(Set1("c", Throw("x")), <<AttrPlain("c"), AttrPlain("b")>>,
                Some(EInt(2)))),
    \* { a = 1; }.${throw "x"} or 2
    Src("sel_throw_name", <<>>,
        ESelect(SetA(1), <<AttrDynamic(Throw("x"))>>, Some(EInt(2)))) }

EqSources ==
  { \* let f = x: x; in f == f
    Src("eq_lambda_self", <<>>,
        ELet(<<Bind("f", Id)>>, EBinary("Eq", EVar("f"), EVar("f")))),
    \* (x: x) == (x: x)
    Src("eq_lambda_lambda", <<>>, EBinary("Eq", Id, Id)),
    \* (x: x) == 1
    Src("eq_lambda_int", <<>>, EBinary("Eq", Id, EInt(1))),
    \* 1 == toString
    Src("eq_int_primop", <<>>, EBinary("Eq", EInt(1), EVar("toString"))),
    \* { outPath = "a"; } == { outPath = "a"; }
    Src("eq_outpath_same", <<>>,
        EBinary("Eq", Set1("outPath", Lit("a")), Set1("outPath", Lit("a")))),
    \* { outPath = "a"; } == { outPath = "b"; }
    Src("eq_outpath_other", <<>>,
        EBinary("Eq", Set1("outPath", Lit("a")), Set1("outPath", Lit("b")))),
    \* { a = 1; } == { a = 1; }
    Src("eq_set_same", <<>>, EBinary("Eq", SetA(1), SetA(1))),
    \* { a = 1; } == { a = 2; }
    Src("eq_set_value", <<>>, EBinary("Eq", SetA(1), SetA(2))),
    \* { a = 1; } == { b = 1; }
    Src("eq_set_key", <<>>, EBinary("Eq", SetA(1), Set1("b", EInt(1)))),
    \* { a = 1; } == { a = 1; b = 2; }
    Src("eq_set_more", <<>>, EBinary("Eq", SetA(1), SetAB)) }

StringSources ==
  { \* /p + drvA
    Src("path_plus_store", <<>>, EBinary("Add", EPath("/p"), EVar("drvA"))),
    \* /p + "s"
    Src("path_plus_plain", <<>>, EBinary("Add", EPath("/p"), Lit("s"))),
    \* "a${toString 1}b"
    Src("tmpl_to_string", <<>>,
        EStr(<<Plain("a"), Quote(EApply(EVar("toString"), EInt(1))),
               Plain("b")>>)),
    \* "a${1}b"
    Src("tmpl_int", <<>>, EStr(<<Plain("a"), Quote(EInt(1)), Plain("b")>>)),
    \* "a${ { outPath = "x"; } }b"
    Src("tmpl_outpath", <<>>,
        EStr(<<Plain("a"), Quote(Set1("outPath", Lit("x"))), Plain("b")>>)),
    \* "a${drvA}b${drvB}"
    Src("tmpl_store", <<>>,
        EStr(<<Plain("a"), Quote(EVar("drvA")), Plain("b"),
               Quote(EVar("drvB"))>>)) }

LoopSources ==
  { \* let x = x + 1; in x
    Src("self_plus", <<>>,
        ELet(<<Bind("x", EBinary("Add", EVar("x"), EInt(1)))>>, EVar("x"))),
    \* let a = 1; b = a; c = b; in c
    Src("ref_chain", <<>>,
        ELet(<<Bind("a", EInt(1)), Bind("b", EVar("a")),
               Bind("c", EVar("b"))>>, EVar("c"))),
    \* let x = x; in x
    Src("ref_cycle", <<>>, ELet(<<Bind("x", EVar("x"))>>, EVar("x"))),
    \* let a = b; b = a; in a
    Src("ref_cycle2", <<>>,
        ELet(<<Bind("a", EVar("b")), Bind("b", EVar("a"))>>, EVar("a"))) }

\* attribute paths of two or more names, none a prefix of another
NestedPaths ==
  {<<"x", "y", "z">>, <<"x", "y", "w">>, <<"x", "v">>, <<"u", "z">>}

\* the names of a path as the parser hands them over
Names(path) == [i \in 1..Len(path) |-> AttrPlain(path[i])]

\* { p1 = 1; p2 = 2; ... } for the paths ps
Nested(ps) ==
  EAttrSet(FALSE, [i \in 1..Len(ps) |-> BindPlain(Names(ps[i]), EInt(i))])

NestedSources ==
  { \* { x.y.z = 1; x.y.w = 2; }.x.y
    Src("nested_select", <<>>,
        ESelect(Nested(<<<<"x", "y", "z">>, <<"x", "y", "w">>>>),
                Names(<<"x", "y">>), Nothing)) }
    \cup {Src("nested", ps, Nested(ps)) :
            ps \in {q \in UNION {[1..l -> NestedPaths] : l \in 2..3} :
                      \A i, j \in 1..Len(q) : i # j => q[i] # q[j]}}

CoerceSources ==
  { Src("val_store", <<>>, EVar("drvA")),
    Src("val_int", <<>>, EInt(1)),
    Src("val_bool", <<>>, EVar("true")),
    Src("val_null", <<>>, EVar("null")),
    Src("val_path", <<>>, EPath("/p")),
    Src("val_lambda", <<>>, Id),
    \* [ drvA drvB ]
    Src("val_list", <<>>, EList(<<EVar("drvA"), EVar("drvB")>>)),
    \* [ "s" [ drvB 1 ] ]
    Src("val_nested", <<>>,
        EList(<<Lit("s"), EList(<<EVar("drvB"), EInt(1)>>)>>)),
    \* { outPath = drvA; }
    Src("val_outpath", <<>>, Set1("outPath", EVar("drvA"))),
    \* [ { outPath = drvB; } drvA ]
    Src("val_list_outpath", <<>>,
        EList(<<Set1("outPath", EVar("drvB")), EVar("drvA")>>)),
    \* [ drvA (x: x) ]
    Src("val_list_lambda", <<>>, EList(<<EVar("drvA"), Id>>)) }

OpSources ==
  FormalsSources \cup SelectSources \cup EqSources \cup StringSources
    \cup LoopSources \cup NestedSources
    \cup {Src("impl", <<a, b>>, Impl(a, b)) : a, b \in BoolOperands}
    \cup {Src("or_not", <<a, b>>, OrNot(a, b)) : a, b \in BoolOperands}
    \cup {Src("or", <<a, b>>, EBinary("Or", a, b)) : a, b \in BoolOperands}
    \cup {Src("and", <<a, b>>, EBinary("And", a, b)) : a, b \in BoolOperands}
    \cup {Src("update", <<a, b, c>>, Update3(a, b, c)) :
            a, b, c \in SetOperands}

\* path sets a caller hands to coerce_to_string
PathSets == {{}, {"pc"}, {"pa", "pc"}}

\* Eval::load_inline of one source text into a new evaluator
load_source(src) ==
  /\ prog = <<>>
  /\ Have(alloc(ev, NewThunk(Expr(src.e, <<>>))), LAMBDA a :
          /\ ev' = [a.st EXCEPT !.inline_counter = (@ + 1) % 65536,
                                !.known = @ \cup {a.id}]
          /\ prog' = Append(prog, [name |-> src.name, args |-> src.args,
                                   root |-> a.id,
                                   file |-> ev.inline_counter])
          /\ out' = [op |-> "load_inline", t |-> a.id, r |-> None])
  /\ UNCHANGED <<blackhole, thunkVars, environ>>

\* Eval::coerce_to_string(v, &mut context, opts), called with a path set
coerce(t, context, opts) ==
  /\ ~Stopped
  /\ ev.forces < MaxCoerce
  /\ Have(coerce_to_string(ev, t, context, opts, MaxDepth), LAMBDA res :
          /\ ev' = [(IF res.r.k = "Diverge" THEN ev ELSE res.st)
                      EXCEPT !.forces = @ + 1,
                             !.demanded = @ \cup {t}]
          /\ out' = [op |-> "coerce_to_string", t |-> t, r |-> res.r,
                     opts |-> opts, before |-> context])
  /\ UNCHANGED <<blackhole, thunkVars, prog, environ>>

\* builtins::strings::coerce_to_string(eval, obj, &mut ctx, extended,
\* copy_to_store), called with a path set
strings_coerce(t, ctx, extended, copy_to_store) ==
  /\ ~Stopped
  /\ ev.forces < MaxCoerce
  /\ Have(strings_coerce_to_string(ev, t, ctx, extended, copy_to_store,
                                   MaxDepth), LAMBDA res :
          /\ ev' = [(IF res.r.k = "Diverge" THEN ev ELSE res.st)
                      EXCEPT !.forces = @ + 1,
                             !.demanded = @ \cup {t}]
          /\ out' = [op |-> "strings::coerce_to_string", t |-> t,
                     r |-> res.r,
                     opts |-> CoerceOpts(extended, copy_to_store),
                     before |-> ctx])
  /\ UNCHANGED <<blackhole, thunkVars, prog, environ>>

InitOps ==
  /\ blackhole \in BOOLEAN
  /\ thunk = NewThunk(Blackhole)
  /\ thr = [t \in Threads |-> Idle]
  /\ hist = [calls |-> 0, runs |-> 0, stores |-> 0]
  /\ ev = OpsEval
  /\ prog = <<>>
  /\ out = NoOut
  /\ environ = EmptyScope

NextOps ==
  \/ \E src \in OpSources : load_source(src)
  \/ \E t \in ev.known : Force(t)

SpecOps == InitOps /\ [][NextOps]_vars

(* sessions that coerce the value of a source text to a string *)
NextCoerce ==
  \/ \E src \in CoerceSources : load_source(src)
  \/ \E t \in ev.known, context \in PathSets, extended, copy \in BOOLEAN :
       coerce(t, context, CoerceOpts(extended, copy))
  \/ \E t \in ev.known, ctx \in PathSets, extended, copy \in BOOLEAN :
       strings_coerce(t, ctx, extended, copy)

SpecCoerce == InitOps /\ [][NextCoerce]_vars

-----------------------------------------------------------------------------
(* Eval::value_of run by a thread on the shared thunk                      *)

\* match self.items[thunk_id].value_ref() { Some(x) => x, None => { ...
value_of_value_ref(t) ==
  /\ thr[t].pc = "vo_value_ref"
  /\ Local(t, IF thr[t].ret.k = "None"
              THEN Enter(thr[t], "gt_lock", "vo_step_thunk")
              ELSE [thr[t] EXCEPT !.pc = "vo_match"])

\* let val = self.step_thunk(thunk.get_thunk())?; thunk.put_value(val)
value_of_step_thunk(t) ==
  /\ thr[t].pc = "vo_step_thunk"
  /\ thr' = [thr EXCEPT ![t] =
       Have(step_thunk(NewEval, thr[t].ret, MaxDepth).r, LAMBDA val :
            IF val.k = "Ok"
            THEN Enter([thr[t] EXCEPT !.arg = val.v], "pv_lock", "vo_match")
            ELSE [thr[t] EXCEPT !.pc = "done", !.stk = <<>>, !.ret = val])]
  /\ hist' = [hist EXCEPT !.runs = @ + 1]
  /\ UNCHANGED <<blackhole, thunk, evalVars>>

\* match v { Value::Ref(r) => ..., _ => break Ok(v) }: the arena of this
\* specification holds one thunk, so a Ref leads back into ids
value_of_match(t) ==
  /\ thr[t].pc = "vo_match"
  /\ Local(t, IF thr[t].ret.k = "Ref" THEN Bail(thr[t], "reference cycle")
              ELSE Return(thr[t], thr[t].ret))

InitShared(th) ==
  /\ blackhole \in BOOLEAN
  /\ thunk = th
  /\ thr = [t \in Threads |-> Idle]
  /\ hist = [calls |-> 0, runs |-> 0, stores |-> 0]
  /\ ev = NewEval
  /\ prog = <<>>
  /\ out = NoOut
  /\ environ = EmptyScope

value_ref_step(t) == value_ref_load(t) \/ value_ref_read(t)

get_thunk_step(t) ==
  \/ get_thunk_lock(t)
  \/ get_thunk_assert(t)
  \/ get_thunk_take(t)
  \/ get_thunk_unlock(t)

update_step(t) ==
  \/ update_lock(t)
  \/ update_assert(t)
  \/ update_drop(t)
  \/ update_write(t)
  \/ update_unlock(t)

put_value_step(t) ==
  \/ put_value_lock(t)
  \/ put_value_assert(t)
  \/ put_value_drop(t)
  \/ put_value_write(t)
  \/ put_value_store(t)
  \/ put_value_unlock(t)
  \/ put_value_unwrap(t)

value_of_step(t) ==
  \/ value_of_value_ref(t)
  \/ value_of_step_thunk(t)
  \/ value_of_match(t)

(* threads calling any method of the thunk, in any order *)
InitThunk == \E th \in InitThunks : InitShared(th)

NextThunk ==
  \E t \in Threads :
    \/ call_value_ref(t)
    \/ call_get_thunk(t)
    \/ call_update(t)
    \/ call_put_value(t)
    \/ call_value_of(t)
    \/ value_ref_step(t)
    \/ get_thunk_step(t)
    \/ update_step(t)
    \/ put_value_step(t)
    \/ value_of_step(t)

SpecThunk == InitThunk /\ [][NextThunk]_vars

(* threads that only force the thunk *)
InitForce == InitShared(NewThunk(Expr(EInt(1), <<>>)))

NextForce ==
  \E t \in Threads :
    \/ call_value_of(t)
    \/ value_ref_step(t)
    \/ get_thunk_step(t)
    \/ put_value_step(t)
    \/ value_of_step(t)

SpecForce == InitForce /\ [][NextForce]_vars

(* threads calling update and put_value of src/thunk.rs, in any order *)
NextWriters ==
  \E t \in Threads :
    \/ call_update_src(t)
    \/ update_src_assert(t)
    \/ update_src_lock(t)
    \/ update_drop(t)
    \/ update_write(t)
    \/ update_unlock(t)
    \/ call_put_value_src(t)
    \/ put_value_src_assert(t)
    \/ put_value_src_lock(t)
    \/ put_value_drop(t)
    \/ put_value_write(t)
    \/ put_value_store(t)
    \/ put_value_unlock(t)
    \/ value_ref_step(t)
    \/ put_value_unwrap(t)

SpecWriters == InitThunk /\ [][NextWriters]_vars

-----------------------------------------------------------------------------
(* Library functions (builtins/sys.rs, builtins/strings.rs, hash), each    *)
(* applied once to an input                                                *)

MaxEntries == 4

\* &n[a..b], with the 0-based byte offsets of the source
slice(n, a, b) == SubSeq(n, a + 1, b)

\* str::starts_with
starts_with(s, x) == Len(s) >= Len(x) /\ SubSeq(s, 1, Len(x)) = x

\* is_uri
is_uri(s) ==
  \E x \in {"http://", "https://", "file://", "channel:", "channel://",
            "git://", "s3://", "ssh://"} : starts_with(s, x)

\* n.match_indices(c): the offsets of c in n from offset i on, ascending
match_indices(n, c, i) ==
  Have({j \in i..(Len(n) - 1) : slice(n, j, j + 1) = c}, LAMBDA found :
    [k \in 1..Cardinality(found) |->
       CHOOSE j \in found : Cardinality({x \in found : x < j}) = k - 1])

\* str::rfind of a one-byte pattern
rfind(s, c) ==
  IF \E i \in 0..(Len(s) - 1) : slice(s, i, i + 1) = c
  THEN Some(CHOOSE i \in 0..(Len(s) - 1) :
              /\ slice(s, i, i + 1) = c
              /\ \A j \in (i + 1)..(Len(s) - 1) : slice(s, j, j + 1) # c)
  ELSE Nothing

\* the `for (next_colon, _) in n.match_indices(':')` loop of parse_nix_path
\* with its locals strings, start and prev_colon
RECURSIVE nix_path_loop(_, _, _, _, _, _)
nix_path_loop(n, colons, i, strings, start, prev_colon) ==
  IF i > Len(colons) THEN [strings |-> strings, start |-> start]
  ELSE IF /\ rfind(slice(n, prev_colon, colons[i]), "=") # Nothing
          /\ is_uri(slice(n, prev_colon
                               + rfind(slice(n, prev_colon, colons[i]),
                                       "=")[1] + 1,
                          Len(n)))
  THEN nix_path_loop(n, colons, i + 1, strings, start, colons[i])
  ELSE nix_path_loop(n, colons, i + 1,
                     Append(strings, slice(n, start, colons[i])),
                     colons[i] + 1, prev_colon)

\* parse_nix_path
parse_nix_path(n) ==
  Have(nix_path_loop(n, match_indices(n, ":", 0), 1, <<>>, 0, 0), LAMBDA l :
    IF l.start < Len(n) THEN Append(l.strings, slice(n, l.start, Len(n)))
    ELSE l.strings)

\* entries of a NIX_PATH: `prefix=path` and bare `path`, a path being a
\* URI or free of colons
NixPathEntries ==
  {"nixpkgs=https://github.com", "foo=bar", "qux=", "baz",
   "https://github.com", "p=channel:x"}

\* the entries joined by colons
RECURSIVE join_entries(_)
join_entries(es) ==
  IF Len(es) = 1 THEN es[1] ELSE es[1] \o ":" \o join_entries(Tail(es))

NixPaths ==
  {[fn |-> "parse_nix_path", entries |-> es, n |-> join_entries(es)] :
     es \in UNION {[1..l -> NixPathEntries] : l \in 1..MaxEntries}}

\* Eval::value_int_of
value_int_of(st, ix, fuel) ==
  Try(value_of(st, ix, fuel), LAMBDA v :
      IF v.r.v.k = "Int" THEN R(v.st, Ok(v.r.v.n))
      ELSE R(v.st, Err("Wrong type: expected list")))

\* std::cmp::min, std::cmp::max
min(a, b) == IF a <= b THEN a ELSE b
max(a, b) == IF a >= b THEN a ELSE b

\* &s[start..actual_end] of substring: a range whose start lies behind its
\* end panics
substring_slice(st, s, start, len, ctx) ==
  Have(min(start + max(0, len), Len(s)), LAMBDA actual_end :
    IF start > actual_end
    THEN R(st, Panic("slice index starts behind its end"))
    ELSE R(st, Ok(VString(slice(s, start, actual_end), ctx))))

\* builtins::strings::substring (src/builtins/strings.rs)
substring(st, start, len, string, fuel) ==
  Try(value_str_of(st, string, fuel), LAMBDA s :
  Try(value_int_of(s.st, start, fuel), LAMBDA i :
    IF i.r.v < 0
    THEN R(i.st, Err("first argument to `substring' must be >= 0"))
    ELSE Try(value_int_of(i.st, len, fuel), LAMBDA l :
           substring_slice(l.st, s.r.v.string, i.r.v, l.r.v,
                           s.r.v.context))))

\* builtins::strings::coerce_new_string (src/eval/builtins/strings.rs)
coerce_new_string(st, obj, extended, copy_to_store, fuel) ==
  strings_coerce_to_string(st, obj, {}, extended, copy_to_store, fuel)

\* builtins::strings::substring (src/eval/builtins/strings.rs)
substring_async(st, start, len, string, fuel) ==
  Try(coerce_new_string(st, string, FALSE, FALSE, fuel), LAMBDA s :
  Try(value_int_of(s.st, start, fuel), LAMBDA i :
    IF i.r.v < 0
    THEN R(i.st, Err("first argument to `substring' must be >= 0"))
    ELSE Try(value_int_of(i.st, len, fuel), LAMBDA l :
           substring_slice(l.st, s.r.v.s, i.r.v, l.r.v, s.r.v.context))))

(* Hashes and their text encodings (hash/mod.rs, core/src/hash.rs) *)

HashTypes == {"md5", "sha1", "sha256", "sha512"}
Encodings == {"Base64", "Base32", "Base16", "SRI"}

\* HashType::size
size(ty) ==
  CASE ty = "md5" -> 16 [] ty = "sha1" -> 20
    [] ty = "sha256" -> 32 [] ty = "sha512" -> 64

\* <HashType as FromStr>::from_str
from_str(x) ==
  IF x \in HashTypes THEN Ok(x) ELSE Err("unknown hash type `" \o x \o "'")

len_base16(sz) == sz * 2
len_base32(sz) == (sz * 8 - 1) \div 5 + 1
\* `& !3` clears the two low bits
len_base64(sz) == (((4 * sz) \div 3 + 3) \div 4) * 4

\* Hash { data, len, ty }: data is [u8; 64], bytes holds the first len
Hash(ty, bytes) ==
  [ty |-> ty, len |-> size(ty),
   data |-> [i \in 1..64 |-> IF i <= Len(bytes) THEN bytes[i] ELSE 0]]

\* Hash::as_bytes
as_bytes(h) == SubSeq(h.data, 1, h.len)

\* <Hash as PartialEq>::eq
hash_eq(self, other) ==
  self.ty = other.ty /\ as_bytes(self) = as_bytes(other)

\* the digit at 0-based offset i of an alphabet, and the offset of a digit
digit(alphabet, i) == SubSeq(alphabet, i + 1, i + 1)
digit_of(alphabet, c) ==
  IF \E i \in 0..(Len(alphabet) - 1) : digit(alphabet, i) = c
  THEN Some(CHOOSE i \in 0..(Len(alphabet) - 1) : digit(alphabet, i) = c)
  ELSE Nothing

\* every character of s is a digit of the alphabet
all_digits(alphabet, s) ==
  \A i \in 0..(Len(s) - 1) : digit_of(alphabet, digit(s, i)) # Nothing

Base16Chars == "0123456789abcdef"
Base32Chars == "0123456789abcdfghijklmnpqrsvwxyz"
Base64Chars ==
  "ABCDEFGHIJKLMNOPQRSTUVWXYZabcdefghijklmnopqrstuvwxyz0123456789+/"

\* 1 << n
RECURSIVE pow2(_)
pow2(n) == IF n = 0 THEN 1 ELSE 2 * pow2(n - 1)

\* binascii::bin2hex: the digits of bytes lo .. hi (1-based), the range
\* halved at each step
RECURSIVE bin2hex(_, _, _)
bin2hex(bytes, lo, hi) ==
  IF lo > hi THEN ""
  ELSE IF lo = hi
  THEN digit(Base16Chars, bytes[lo] \div 16)
         \o digit(Base16Chars, bytes[lo] % 16)
  ELSE bin2hex(bytes, lo, (lo + hi) \div 2)
         \o bin2hex(bytes, (lo + hi) \div 2 + 1, hi)

\* binascii::hex2bin into a zeroed [u8; 64]
hex2bin(input) ==
  IF Len(input) % 2 # 0 \/ ~all_digits(Base16Chars, input)
  THEN Err("InvalidInput")
  ELSE Ok([i \in 1..64 |->
             IF 2 * i <= Len(input)
             THEN 16 * digit_of(Base16Chars, digit(input, 2 * i - 2))[1]
                    + digit_of(Base16Chars, digit(input, 2 * i - 1))[1]
             ELSE 0])

\* base32::encode_into: character n (counted from the end of the text)
\* holds bits 5n .. 5n+4 of the bytes read as a little-endian number
base32_digit(bytes, n) ==
  digit(Base32Chars,
        (bytes[(5 * n) \div 8 + 1] \div pow2((5 * n) % 8)
           + (IF (5 * n) \div 8 + 2 <= Len(bytes)
              THEN bytes[(5 * n) \div 8 + 2] * pow2(8 - ((5 * n) % 8))
              ELSE 0)) % 32)

\* the characters hi down to lo, the range halved at each step
RECURSIVE base32_encode(_, _, _)
base32_encode(bytes, lo, hi) ==
  IF lo > hi THEN ""
  ELSE IF lo = hi THEN base32_digit(bytes, lo)
  ELSE base32_encode(bytes, (lo + hi) \div 2 + 1, hi)
         \o base32_encode(bytes, lo, (lo + hi) \div 2)

\* base32::decode_into: byte i (0-based) collects bits 8i .. 8i+7
base32_byte(input, i) ==
  Have(Len(input), LAMBDA len :
    (IF (8 * i) \div 5 < len
     THEN digit_of(Base32Chars,
                   digit(input, len - 1 - (8 * i) \div 5))[1]
            \div pow2((8 * i) % 5)
     ELSE 0)
    + (IF (8 * i) \div 5 + 1 < len
       THEN (digit_of(Base32Chars,
                      digit(input, len - 2 - (8 * i) \div 5))[1]
               * pow2(5 - ((8 * i) % 5))) % 256
       ELSE 0)
    + (IF (8 * i) % 5 > 2 /\ (8 * i) \div 5 + 2 < len
       THEN (digit_of(Base32Chars,
                      digit(input, len - 3 - (8 * i) \div 5))[1]
               * pow2(10 - ((8 * i) % 5))) % 256
       ELSE 0))

base32_decode(input) ==
  IF ~all_digits(Base32Chars, input) THEN Err("invalid base32")
  ELSE Ok([i \in 1..64 |->
             IF 8 * (i - 1) < 5 * Len(input) THEN base32_byte(input, i - 1)
             ELSE 0])

\* the four characters of the group of three bytes that starts at byte i
\* (1-based), `=` standing for a byte behind the end
b64group(bytes, i) ==
  Have(bytes[i] * 65536
         + (IF i + 1 <= Len(bytes) THEN bytes[i + 1] * 256 ELSE 0)
         + (IF i + 2 <= Len(bytes) THEN bytes[i + 2] ELSE 0),
       LAMBDA n :
         digit(Base64Chars, n \div 262144)
           \o digit(Base64Chars, (n \div 4096) % 64)
           \o (IF i + 1 <= Len(bytes)
               THEN digit(Base64Chars, (n \div 64) % 64) ELSE "=")
           \o (IF i + 2 <= Len(bytes)
               THEN digit(Base64Chars, n % 64) ELSE "="))

\* binascii::b64encode: the groups lo .. hi (0-based), the range halved at
\* each step
RECURSIVE b64encode(_, _, _)
b64encode(bytes, lo, hi) ==
  IF lo > hi THEN ""
  ELSE IF lo = hi THEN b64group(bytes, 3 * lo + 1)
  ELSE b64encode(bytes, lo, (lo + hi) \div 2)
         \o b64encode(bytes, (lo + hi) \div 2 + 1, hi)

\* the text without its trailing `=` padding
RECURSIVE unpadded(_)
unpadded(input) ==
  IF Len(input) > 0 /\ digit(input, Len(input) - 1) = "="
  THEN unpadded(SubSeq(input, 1, Len(input) - 1))
  ELSE input

\* the 6-bit group at offset j of the unpadded text, 0 behind its end
sextet(text, j) ==
  IF j < Len(text) THEN digit_of(Base64Chars, digit(text, j))[1] ELSE 0

\* base64::decode_config_slice(input, base64::STANDARD, &mut bytes) on a
\* zeroed [u8; 64]
decode_config_slice(input) ==
  Have(unpadded(input), LAMBDA text :
    IF \/ Len(input) % 4 # 0
       \/ Len(input) - Len(text) > 2
       \/ ~all_digits(Base64Chars, text)
    THEN Err("Invalid byte or padding")
    ELSE Ok([i \in 1..64 |->
               IF i <= (Len(text) * 6) \div 8
               THEN Have(sextet(text, 4 * ((i - 1) \div 3)) * 262144
                           + sextet(text, 4 * ((i - 1) \div 3) + 1) * 4096
                           + sextet(text, 4 * ((i - 1) \div 3) + 2) * 64
                           + sextet(text, 4 * ((i - 1) \div 3) + 3),
                         LAMBDA n :
                           (n \div pow2(8 * (2 - ((i - 1) % 3)))) % 256)
               ELSE 0]))

\* Hash::encode_impl (the same text in both modules)
encode_impl(self, encoding) ==
  CASE encoding = "Base16" -> bin2hex(as_bytes(self), 1, self.len)
    [] encoding = "Base32" ->
         base32_encode(as_bytes(self), 0, len_base32(self.len) - 1)
    [] encoding \in {"Base64", "SRI"} ->
         b64encode(as_bytes(self), 0, (self.len - 1) \div 3)

\* Hash::encode_with_type
encode_with_type(self, encoding) ==
  self.ty \o (IF encoding = "SRI" THEN "-" ELSE ":")
          \o encode_impl(self, encoding)

\* util::break_str: the text before and behind the first c
break_str(input, c) ==
  IF \E i \in 0..(Len(input) - 1) : digit(input, i) = c
  THEN Have(CHOOSE i \in 0..(Len(input) - 1) :
              /\ digit(input, i) = c
              /\ \A j \in 0..(i - 1) : digit(input, j) # c,
            LAMBDA i : Some(<<slice(input, 0, i),
                              slice(input, i + 1, Len(input))>>))
  ELSE Nothing

\* `Ok(Self { data: bytes, ty, len: ty.size() })` behind a codec's `?`
hash_of(decoded, ty) ==
  IF decoded.k = "Ok"
  THEN Ok([ty |-> ty, len |-> size(ty), data |-> decoded.v])
  ELSE decoded

\* Hash::decode_with_type (src/hash/mod.rs)
decode_with_type(input, ty, sri) ==
  IF ~sri /\ Len(input) = len_base16(size(ty))
  THEN hash_of(hex2bin(input), ty)
  ELSE IF ~sri /\ Len(input) = len_base32(size(ty))
  THEN hash_of(base32_decode(input), ty)
  ELSE IF sri \/ Len(input) = len_base64(size(ty))
  THEN hash_of(decode_config_slice(input), ty)
  ELSE Err("incorrect hash")

\* Hash::decode_with_type (core/src/hash.rs)
core_decode_with_type(input, ty, sri) ==
  IF ~sri /\ Len(input) = len_base16(size(ty))
  THEN hash_of(hex2bin(input), ty)
  ELSE IF ~sri /\ Len(input) = len_base32(size(ty))
  THEN hash_of(base32_decode(input), ty)
  ELSE Panic("not yet implemented")

\* Hash::decode, over the decode_with_type of its module
decode(input, core) ==
  IF break_str(input, ":") # Nothing
  THEN Have(break_str(input, ":")[1], LAMBDA b :
         IF from_str(b[1]).k # "Ok" THEN from_str(b[1])
         ELSE IF core THEN core_decode_with_type(b[2], b[1], FALSE)
         ELSE decode_with_type(b[2], b[1], FALSE))
  ELSE IF break_str(input, "-") # Nothing
  THEN Have(break_str(input, "-")[1], LAMBDA b :
         IF from_str(b[1]).k # "Ok" THEN from_str(b[1])
         ELSE IF core THEN core_decode_with_type(b[2], b[1], TRUE)
         ELSE decode_with_type(b[2], b[1], TRUE))
  ELSE Err("attempt to parse untyped hash `" \o input \o "'")

\* digests: all bytes 0, all bytes 255, and a pattern of changing bytes
Digests(ty) ==
  {[i \in 1..size(ty) |-> 0], [i \in 1..size(ty) |-> 255],
   [i \in 1..size(ty) |-> (89 * i + 7) % 256]}

Hashes ==
  UNION {{[fn |-> "hash", h |-> Hash(ty, d), encoding |-> e] :
            d \in Digests(ty), e \in Encodings} : ty \in HashTypes}

MaxStart == 3

\* arguments of substring: start, len, and a string with its context
Substrings ==
  {[fn |-> "substring", start |-> i, len |-> l, s |-> s, ctx |-> c] :
     i \in (-1)..MaxStart, l \in (-1)..MaxStart, s \in {"", "hi", "hello"},
     c \in {{}, {"pa"}}}

LibInputs == NixPaths \cup Substrings \cup Hashes

\* Eval::with_config, and the thunks 4, 5, 6 of the arguments of a call
LibEval(input) ==
  IF input.fn = "substring"
  THEN [NewEval EXCEPT
          !.items = @ \o <<CompleteThunk(VInt(input.start)),
                           CompleteThunk(VInt(input.len)),
                           CompleteThunk(VString(input.s, input.ctx))>>,
          !.runs = @ \o <<0, 0, 0>>]
  ELSE NewEval

\* substring(eval, start, len, string), either version
call_substring(async) ==
  /\ prog.fn = "substring"
  /\ out = NoOut
  /\ Have(IF async THEN substring_async(ev, 4, 5, 6, MaxDepth)
                   ELSE substring(ev, 4, 5, 6, MaxDepth), LAMBDA res :
          /\ ev' = res.st
          /\ out' = [op |-> IF async THEN "substring_async" ELSE "substring",
                     t |-> 6, r |-> res.r])
  /\ UNCHANGED <<blackhole, thunkVars, prog, environ>>

\* parse_nix_path(&n)
call_parse_nix_path ==
  /\ prog.fn = "parse_nix_path"
  /\ out = NoOut
  /\ out' = [op |-> "parse_nix_path", t |-> 0,
             r |-> Ok(parse_nix_path(prog.n))]
  /\ UNCHANGED <<blackhole, thunkVars, ev, prog, environ>>

\* h.encode_with_type(encoding)
call_encode_with_type ==
  /\ prog.fn = "hash"
  /\ out = NoOut
  /\ out' = [op |-> "encode_with_type", t |-> 0,
             r |-> Ok(encode_with_type(prog.h, prog.encoding))]
  /\ UNCHANGED <<blackhole, thunkVars, ev, prog, environ>>

\* Hash::decode(&text) of either module, on an encoded hash
call_decode(core) ==
  /\ out.op = "encode_with_type"
  /\ out' = [op |-> IF core THEN "core::Hash::decode" ELSE "Hash::decode",
             t |-> 0, r |-> decode(out.r.v, core), input |-> out.r.v]
  /\ UNCHANGED <<blackhole, thunkVars, ev, prog, environ>>

InitLib ==
  /\ blackhole = FALSE
  /\ thunk = NewThunk(Blackhole)
  /\ thr = [t \in Threads |-> Idle]
  /\ hist = [calls |-> 0, runs |-> 0, stores |-> 0]
  /\ prog \in LibInputs
  /\ ev = LibEval(prog)
  /\ out = NoOut
  /\ environ = EmptyScope

NextLib ==
  \/ call_parse_nix_path
  \/ \E async \in BOOLEAN : call_substring(async)
  \/ call_encode_with_type
  \/ \E core \in BOOLEAN : call_decode(core)

SpecLib == InitLib /\ [][NextLib]_vars

-----------------------------------------------------------------------------
(* Eval::load_file and Eval::load_inline with the tables they keep: the    *)
(* registered files, the thunk of each loaded path, the inline counter     *)

MaxFiles == 3

\* the files of the file system, each with its parsed contents
FileSystem == ("/a.nix" :> EInt(1)) @@ ("/b.nix" :> EInt(2))

\* Path::canonicalize of the spellings a caller may pass: the canonical
\* path, one with `..`, a symbolic link, a relative path, a missing file
canonicalize(path) ==
  CASE path \in {"/a.nix", "/d/../a.nix", "/link.nix", "a.nix"} ->
         Ok("/a.nix")
    [] path = "/b.nix" -> Ok("/b.nix")
    [] OTHER -> Err("No such file or directory")

Paths == {"/a.nix", "/d/../a.nix", "/link.nix", "a.nix", "/b.nix",
          "/missing.nix"}

\* std::fs::read_to_string followed by syntax::parse
read_to_string(path) ==
  IF canonicalize(path).k = "Ok"
  THEN Ok(FileSystem[canonicalize(path).v]) ELSE canonicalize(path)

\* format!("<inline-{}>", n)
inline_name(n) == "<inline-" \o ToString(n) \o ">"

\* an Eval on which load_inline was called n times before: the counter is
\* n mod 2^16 and the files <inline-0> .. <inline-(n-1)> are registered.
\* The n thunks and file entries of those calls are not itemised (inlines
\* counts them); ThunkIds count without them.
FilesEval(n) ==
  [items |-> NewEval.items, runs |-> NewEval.runs,
   inline_counter |-> n % 65536,
   inlines |-> n,
   files |-> <<>>,
   file_ids |-> EmptyScope,
   reads |-> <<>>]

\* Eval::load_file
load_file(path) ==
  /\ Len(prog) < MaxFiles
  /\ IF path \in DOMAIN ev.file_ids
     THEN /\ ev' = ev
          /\ out' = [op |-> "load_file", t |-> ev.file_ids[path],
                     r |-> Ok(ev.file_ids[path])]
     ELSE IF read_to_string(path).k # "Ok"
     THEN /\ ev' = [ev EXCEPT !.reads = Append(@, path)]
          /\ out' = [op |-> "load_file", t |-> 0, r |-> read_to_string(path)]
     ELSE Have(alloc(ev, NewThunk(Expr(read_to_string(path).v, <<>>))),
               LAMBDA a :
            /\ ev' = [a.st EXCEPT
                        !.reads = Append(@, path),
                        !.files = Append(@, path),
                        !.file_ids = insert(@, canonicalize(path).v, a.id)]
            /\ out' = [op |-> "load_file", t |-> a.id, r |-> Ok(a.id)])
  /\ prog' = Append(prog, [op |-> "load_file", path |-> path, r |-> out'.r])
  /\ UNCHANGED <<blackhole, thunkVars, environ>>

\* Eval::load_inline, with the file it registers
load_inline_file(e) ==
  /\ Len(prog) < MaxFiles
  /\ Have(alloc(ev, NewThunk(Expr(e, <<>>))), LAMBDA a :
          /\ ev' = [a.st EXCEPT
                      !.inline_counter = (@ + 1) % 65536,
                      !.files = Append(@, inline_name(ev.inline_counter))]
          /\ out' = [op |-> "load_inline", t |-> a.id, r |-> Ok(a.id)]
          /\ prog' = Append(prog, [op |-> "load_inline",
                                   path |-> inline_name(ev.inline_counter),
                                   r |-> Ok(a.id)]))
  /\ UNCHANGED <<blackhole, thunkVars, environ>>

InitFiles ==
  /\ blackhole = FALSE
  /\ thunk = NewThunk(Blackhole)
  /\ thr = [t \in Threads |-> Idle]
  /\ hist = [calls |-> 0, runs |-> 0, stores |-> 0]
  /\ ev \in {FilesEval(0), FilesEval(65535)}
  /\ prog = <<>>
  /\ out = NoOut
  /\ environ = EmptyScope

NextFiles ==
  \/ \E path \in Paths : load_file(path)
  \/ \E e \in {EInt(1), EInt(2)} : load_inline_file(e)

SpecFiles == InitFiles /\ [][NextFiles]_vars

-----------------------------------------------------------------------------
(* Properties                                                              *)

Items == 1..Len(ev.items)

\* root thunks of the loaded programs named n
Root(n) == {prog[j].root : j \in {l \in 1..Len(prog) : prog[l].name = n}}

\* the last operation was value_of on the root of program n
Forced(n) == out.op = "value_of" /\ out.t \in Root(n)

\* thunk i still holds the pending cell of expression e
Pending(i, e) == ev.items[i].tv.k = "Expr" /\ ev.items[i].tv.e = e

\* C1: a thunk goes from unloaded to loaded at most once: once loaded is
\* true it stays true and the installed Value is never replaced, and a
\* put_value that finds the thunk loaded panics with "double initialization"
\* and writes nothing.
C1_OneShot ==
  [][ /\ thunk.loaded => (thunk'.loaded /\ thunk'.tv = thunk.tv)
      /\ hist'.stores <= 1
      /\ \A t \in Threads :
           (thr[t].pc = "pv_assert" /\ thr'[t].pc # "pv_assert"
              /\ thunk.loaded)
           => (thr'[t].pc = "done"
                 /\ thr'[t].ret = Panic("double initialization")) ]_vars

\* a put_value installed the Value and a later put_value hit the assertion
C1_Witness ==
  /\ hist.stores = 1
  /\ thunk.loaded
  /\ \E t \in Threads : /\ thr[t].op = "put_value"
                        /\ thr[t].pc = "done"
                        /\ thr[t].ret = Panic("double initialization")

\* C2: once a thunk holds its Value, value_of on it returns that Value
\* without get_thunk or step_thunk: the pending work (and a getEnv behind
\* it) is not run again and the thunk is not written again.
C2_Memoised ==
  [][ \A i \in Items :
        ev.items[i].loaded =>
          /\ ev'.items[i] = ev.items[i]
          /\ ev'.runs[i] = ev.runs[i]
          /\ (ev'.forces # ev.forces /\ out'.t = i
                /\ ev.items[i].tv.k # "Ref")
             => /\ out'.r.k = "Ok"
                /\ out'.r.v = ev.items[i].tv
                /\ ev'.env_reads = ev.env_reads
                /\ ev'.runs = ev.runs ]_vars

\* builtins.getEnv "X" was forced again after the environment changed and
\* still yields the value read the first time
C2_Witness ==
  /\ Forced("getenv")
  /\ ev.forces >= 2
  /\ ev.env_reads = 1
  /\ out.r.k = "Ok"
  /\ out.r.v = VString("one", {})
  /\ environ = ("X" :> "two")

\* C3: when threads call value_of on the same unloaded thunk, exactly one
\* runs the pending work and every call returns the installed Value; none
\* panics and none gets an error.
C3_Serialized ==
  /\ hist.runs <= 1
  /\ \A t \in Threads :
       (thr[t].op = "value_of" /\ thr[t].pc = "done") => thr[t].ret = VInt(1)

\* C4: a reader that observed loaded = true reads a completely written
\* Value: the Value is in the cell before loaded is set, and value_ref
\* reads the cell as a Value only after it saw loaded = true.
C4_Published ==
  /\ thunk.loaded => IsValue(thunk.tv)
  /\ \A t \in Threads :
       /\ thr[t].pc = "vr_read" => (thunk.loaded /\ IsValue(thunk.tv))
       /\ thr[t].ret \notin GarbageReads

\* a reader is about to read the Value while the writer that just set
\* loaded still holds the mutex
C4_Witness ==
  \E t, u \in Threads :
    /\ thr[t].pc = "vr_read"
    /\ thr[t].op = "value_ref"
    /\ thr[u].op = "put_value"
    /\ thr[u].pc = "pv_unlock"

\* C5: forcing `let x = x; in x` fails with "infinite loop".
C5_InfiniteLoop == Forced("let_x_x") => out.r = Err("infinite loop")

\* C6: right-hand sides of bindings, function arguments and list elements
\* are allocated unevaluated and run only when demanded: the three programs
\* yield 1, 1 and a list of length 2 whose second element forces to 2, and
\* a `throw` thunk that the caller does not force itself is never run and
\* stays unloaded with its pending cell.
C6_Lazy ==
  /\ Forced("lazy_let") => (out.r.k = "Ok" /\ out.r.v = VInt(1))
  /\ Forced("lazy_arg") => (out.r.k = "Ok" /\ out.r.v = VInt(1))
  /\ Forced("lazy_list") =>
       (out.r.k = "Ok" /\ out.r.v.k = "List" /\ Len(out.r.v.ids) = 2)
  /\ \A r \in Root("lazy_list") :
       ev.items[r].loaded =>
         /\ ev.items[r].tv.ids[1] \notin ev.demanded
            => /\ Pending(ev.items[r].tv.ids[1], Throw("a"))
               /\ ev.runs[ev.items[r].tv.ids[1]] = 0
         /\ (out.op = "value_of" /\ out.t = ev.items[r].tv.ids[2])
            => (out.r.k = "Ok" /\ out.r.v = VInt(2))
  /\ \A i \in Items :
       (Pending(i, Throw("bang")) \/ Pending(i, Throw("a")))
       => (ev.runs[i] = 0 \/ i \in ev.demanded)

\* element 1 of [ (throw "a") 2 ] was forced to 2 and element 0 is unloaded
C6_Witness ==
  \E r \in Root("lazy_list") :
    /\ ev.items[r].loaded
    /\ out.op = "value_of"
    /\ out.t = ev.items[r].tv.ids[2]
    /\ out.r.k = "Ok"
    /\ out.r.v = VInt(2)
    /\ Pending(ev.items[r].tv.ids[1], Throw("a"))

LexicalAndWith ==
  {"let_with", "with_let", "with_lambda", "lambda_with", "with_formals",
   "rec_with"}

\* C7: a name bound by a let, a rec set or a lambda and also by a `with`
\* set resolves to the lexical binding whatever the nesting order, and the
\* `with` set is not forced.
C7_LexicalFirst ==
  /\ \A n \in LexicalAndWith :
       Forced(n) => (out.r.k = "Ok" /\ out.r.v = VInt(1))
  /\ (\A j \in 1..Len(prog) : prog[j].name \in LexicalAndWith)
     => \A i \in Items :
          /\ Pending(i, SetA(2)) => ev.runs[i] = 0
          /\ ~Pending(i, EInt(2))

\* `let a = 1; in with { a = 2; }; a` gave 1, the with set still pending
C7_Witness ==
  /\ Forced("let_with")
  /\ out.r.k = "Ok"
  /\ out.r.v = VInt(1)
  /\ \E i \in Items : Pending(i, SetA(2)) /\ ev.runs[i] = 0

\* C8: `with { a = 1; }; with { a = 2; }; a` evaluates to 2.
C8_InnerWith ==
  Forced("with_with") => (out.r.k = "Ok" /\ out.r.v = VInt(2))

\* C9: a set or let block that defines the same key twice at one level
\* fails with an error.
C9_Duplicate == (Forced("dup_set") \/ Forced("dup_let")) => out.r.k = "Err"

\* C10: applying `{ a }: a` (no ellipsis) to a set with an extra key fails
\* with an error.
C10_ExtraKey == Forced("extra_arg") => out.r.k = "Err"

\* the last value_of call returned the Value v
Yields(v) == out.op = "value_of" /\ out.r.k = "Ok" /\ out.r.v = v

\* the only value_of call so far was on the root of program n (a second
\* call on a root whose evaluation failed finds the cell get_thunk left)
Once(n) == Forced(n) /\ ev.forces = 1

\* thunk i holds an attribute set with exactly the keys ks
HoldsSet(i, ks) ==
  /\ ev.items[i].loaded
  /\ ev.items[i].tv.k = "AttrSet"
  /\ DOMAIN ev.items[i].tv.map = ks

\* C11: applying a lambda with formals binds each formal to the argument's
\* thunk when the argument set has the key, otherwise to an unevaluated
\* thunk of its default under the captured context extended with the
\* complete formal scope (so a default can use any sibling formal:
\* `({ a, b ? a + 1 }: b) { a = 10; }` is 11); a missing formal without a
\* default fails; the body runs under the captured context, not the
\* caller's.
C11_Formals ==
  /\ Forced("formals_default") => Yields(VInt(11))
  /\ Forced("formals_given") =>
       /\ Yields(VInt(5))
       /\ \A i, j \in Items :
            (HoldsSet(i, {"a", "b"}) /\ HoldsSet(j, {"a", "b"}))
            => ev.items[i].tv.map = ev.items[j].tv.map
       /\ \E i, j \in Items :
            i # j /\ HoldsSet(i, {"a", "b"}) /\ HoldsSet(j, {"a", "b"})
       /\ \A i \in Items :
            ~Pending(i, EBinary("Add", EVar("a"), EInt(1)))
  /\ Forced("formals_later") => Yields(VInt(3))
  /\ Forced("formals_missing") => out.r.k = "Err"
  /\ Forced("formals_lazy") =>
       /\ Yields(VInt(10))
       /\ \E i \in Items : Pending(i, Throw("x"))
       /\ \A i \in Items :
            Pending(i, Throw("x")) =>
              /\ ev.runs[i] = 0
              /\ Len(ev.items[i].tv.c) = 1
              /\ ev.items[i].tv.c[1].k = "Dynamic"
              /\ HoldsSet(ev.items[i].tv.c[1].t, {"a", "b"})
              /\ ev.items[ev.items[i].tv.c[1].t].tv.map["b"] = i
              /\ \E j \in Items :
                   /\ HoldsSet(j, {"a"})
                   /\ ev.items[j].tv.map["a"]
                        = ev.items[ev.items[i].tv.c[1].t].tv.map["a"]
  /\ Forced("formals_captured_default") => Yields(VInt(1))
  /\ Forced("formals_captured_body") => Yields(VInt(1))

\* `({ a, b ? a + 1 }: b) { a = 10; }` was forced and gave 11
C11_Witness == Forced("formals_default") /\ Yields(VInt(11))

\* C12: forcing an application whose function operand is not a Lambda or
\* Primop returns an error through the Result of value_of (the evaluator
\* does not panic), and the Apply thunk stays unloaded.
C12_NotAFunction ==
  Forced("apply_int") =>
    /\ out.r.k = "Err"
    /\ \A i \in Items :
         ev.items[i].tv.k \in {"Apply", "Blackhole"} => ~ev.items[i].loaded

\* C13: in `lhs.p1...pn or fallback` the fallback is evaluated, under the
\* current context, exactly when a path component is missing; an error
\* raised while forcing lhs, an intermediate set or a dynamic attribute
\* name is returned as it is; without `or` a missing component fails with
\* "Missing attribute" naming that component.
C13_SelectOr ==
  /\ Forced("sel_hit") => Yields(VInt(1))
  /\ (\E j \in 1..Len(prog) : prog[j].name = "sel_hit")
     => \A i \in Items : Pending(i, Throw("x")) => ev.runs[i] = 0
  /\ Forced("sel_miss_or") => Yields(VInt(2))
  /\ Once("sel_miss") => out.r = Err("Missing attribute b")
  /\ Forced("sel_deep_miss_or") => Yields(VInt(2))
  /\ Once("sel_deep_miss") => out.r = Err("Missing attribute b")
  /\ Once("sel_throw_lhs") => out.r = Err("throw")
  /\ Once("sel_throw_mid") => out.r = Err("throw")
  /\ Once("sel_throw_name") => out.r = Err("throw")

\* `(throw "x").a or 2` was forced and returned the error of its lhs
C13_Witness == Once("sel_throw_lhs") /\ out.r = Err("throw")

\* C14: `==` is false whenever a side is a Lambda or a Primop, also when
\* both sides are the same function reached through the same thunk
\* (`let f = x: x; in f == f` is false).
C14_FunctionsUnequal ==
  \A n \in {"eq_lambda_self", "eq_lambda_lambda", "eq_lambda_int",
             "eq_int_primop"} :
    Forced(n) => Yields(VBool(FALSE))

\* C15: two sets that both have outPath are equal iff their forced outPath
\* values are `==` (distinct thunks holding equal strings are equal);
\* other sets are equal iff they have the same keys and `==` values.
C15_SetEquality ==
  /\ Forced("eq_outpath_same") => Yields(VBool(TRUE))
  /\ Forced("eq_outpath_other") => Yields(VBool(FALSE))
  /\ Forced("eq_set_same") => Yields(VBool(TRUE))
  /\ Forced("eq_set_value") => Yields(VBool(FALSE))
  /\ Forced("eq_set_key") => Yields(VBool(FALSE))
  /\ Forced("eq_set_more") => Yields(VBool(FALSE))

\* C16: `p + s` for a Path p and a String s fails when s has a non-empty
\* context and yields the joined Path when the context of s is empty.
C16_PathPlusString ==
  /\ Forced("path_plus_store") => out.r.k = "Err"
  /\ Forced("path_plus_plain") => Yields(VPath("/p/s"))

\* the result of value_of on the text e in a new evaluator
Outcome(e) ==
  value_of(thunk_of(OpsEval, e, <<>>).st, Len(OpsEval.items) + 1, MaxDepth).r

\* the same Value, or an error in both
SameOutcome(r1, r2) ==
  IF r1.k = "Ok" /\ r2.k = "Ok" THEN r1.v = r2.v
  ELSE r1.k # "Ok" /\ r2.k # "Ok"

BoolOrError(r) == r.k = "Err" \/ (r.k = "Ok" /\ r.v.k = "Bool")

\* C17: `a -> b` has the outcome of `!a || b` (the same Bool, or an error
\* in both); the right operand is forced only when the left one does not
\* decide the result; `&&`, `||` and `->` yield a Bool or an error, never a
\* non-Bool right operand.
C17_ShortCircuit ==
  \A j \in 1..Len(prog) :
    (out.op = "value_of" /\ out.t = prog[j].root /\ ev.forces = 1) =>
      /\ prog[j].name = "impl"
         => SameOutcome(out.r, Outcome(OrNot(prog[j].args[1],
                                             prog[j].args[2])))
      /\ prog[j].name \in {"impl", "or_not", "or", "and"}
         => BoolOrError(out.r)
      /\ (prog[j].name = "impl" /\ prog[j].args[1] = EVar("false"))
         => Yields(VBool(TRUE))
      /\ (prog[j].name = "or" /\ prog[j].args[1] = EVar("true"))
         => Yields(VBool(TRUE))
      /\ (prog[j].name = "and" /\ prog[j].args[1] = EVar("false"))
         => Yields(VBool(FALSE))

\* the thunk a chain of loaded Refs from thunk i ends in
RECURSIVE Target(_, _)
Target(i, n) ==
  IF n = 0 \/ ~ev.items[i].loaded \/ ev.items[i].tv.k # "Ref" THEN i
  ELSE Target(ev.items[i].tv.t, n - 1)

\* the contexts of the Strings reached from thunk i: the String itself,
\* the items of a List (extended only), the outPath of a set
RECURSIVE Reached(_, _, _)
Reached(i, extended, n) ==
  IF n = 0 THEN {}
  ELSE Have(ev.items[Target(i, n)], LAMBDA th :
       IF ~th.loaded THEN {}
       ELSE CASE th.tv.k = "String" -> th.tv.context
              [] th.tv.k = "List" /\ extended ->
                   UNION {Reached(th.tv.ids[j], extended, n - 1) :
                            j \in 1..Len(th.tv.ids)}
              [] th.tv.k = "AttrSet" /\ "outPath" \in DOMAIN th.tv.map ->
                   Reached(th.tv.map["outPath"], extended, n - 1)
              [] OTHER -> {})

\* C18: a successful coerce_to_string leaves in the path set everything
\* that was in it before and the context of every String it reached
\* (through nested lists and outPath attributes); nothing is removed.
C18_ContextMonotone ==
  (out.op \in {"coerce_to_string", "strings::coerce_to_string"}
     /\ out.r.k = "Ok")
  => /\ out.before \subseteq out.r.v.context
     /\ Reached(out.t, out.opts.extended, MaxDepth) \subseteq out.r.v.context

\* [ "s" [ drvB 1 ] ] was coerced into the path set {"pc"}
C18_Witness ==
  /\ out.op = "coerce_to_string"
  /\ out.r.k = "Ok"
  /\ out.before = {"pc"}
  /\ out.r.v = Coerced("s sb 1", {"pb", "pc"})

\* C19: a string template yields the concatenation, in order, of its plain
\* parts and of each interpolated value coerced with extended = false,
\* copy_to_store = true (an interpolated Int or set with outPath is
\* accepted), with the union of the interpolations' contexts:
\* `"a${toString 1}b"` is "a1b" with an empty context.
C19_Template ==
  /\ Forced("tmpl_to_string") => Yields(VString("a1b", {}))
  /\ Forced("tmpl_store") => Yields(VString("asabsb", {"pa", "pb"}))
  /\ Forced("tmpl_int") => Yields(VString("a1b", {}))
  /\ Forced("tmpl_outpath") => Yields(VString("axb", {}))

\* the attribute set thunk i evaluates to in the current state
AttrsOf(i) == value_attrs_of(ev, i, MaxDepth).r.v

\* m has the keys of the maps in ms and maps each key to the thunk it has
\* in the last map of ms that has the key
RECURSIVE RightBiased(_, _)
RightBiased(m, ms) ==
  /\ DOMAIN m = UNION {DOMAIN ms[j] : j \in 1..Len(ms)}
  /\ \A key \in DOMAIN m :
       \A j \in 1..Len(ms) :
         (key \in DOMAIN ms[j]
            /\ \A l \in (j + 1)..Len(ms) : key \notin DOMAIN ms[l])
         => m[key] = ms[j][key]

\* the keys written in the set text e
KeysOf(e) == {e.attrs[j].path[1].name : j \in 1..Len(e.attrs)}

\* C20: `a // b` has the keys of a and of b, a shared key mapped to the
\* thunk it has in b, and leaves a and b as they were; `(a // b) // c` and
\* `a // (b // c)` have the same keys and map every key to the same thunk,
\* the one of the rightmost operand that has the key.
C20_UpdateAssociative ==
  \A j \in 1..Len(prog) :
    (prog[j].name = "update" /\ ev.items[prog[j].root].loaded) =>
      Have(ev.items[prog[j].root].tv.ids, LAMBDA ids :
        /\ ev.items[ids[3]].loaded =>
             /\ RightBiased(ev.items[ids[3]].tv.map,
                            <<AttrsOf(ids[4]), AttrsOf(ids[5])>>)
             /\ DOMAIN AttrsOf(ids[4]) = KeysOf(prog[j].args[1])
             /\ DOMAIN AttrsOf(ids[5]) = KeysOf(prog[j].args[2])
        /\ ev.items[ids[1]].loaded =>
             RightBiased(ev.items[ids[1]].tv.map,
                         <<AttrsOf(ids[4]), AttrsOf(ids[5]), AttrsOf(ids[6])>>)
        /\ ev.items[ids[2]].loaded =>
             RightBiased(ev.items[ids[2]].tv.map,
                         <<AttrsOf(ids[4]), AttrsOf(ids[5]), AttrsOf(ids[6])>>)
        /\ (ev.items[ids[1]].loaded /\ ev.items[ids[2]].loaded) =>
             ev.items[ids[1]].tv.map = ev.items[ids[2]].tv.map)

\* both `(a // b) // c` and `a // (b // c)` were forced for a = { x = 1; },
\* b = { x = 3; y = 4; }, c = { y = 2; }
C20_Witness ==
  \E j \in 1..Len(prog) :
    /\ prog[j].name = "update"
    /\ prog[j].args = <<Set1("x", EInt(1)),
                        EAttrSet(FALSE, <<Bind("x", EInt(3)),
                                          Bind("y", EInt(4))>>),
                        Set1("y", EInt(2))>>
    /\ ev.items[prog[j].root].loaded
    /\ ev.items[ev.items[prog[j].root].tv.ids[1]].loaded
    /\ ev.items[ev.items[prog[j].root].tv.ids[2]].loaded
    /\ DOMAIN ev.items[ev.items[prog[j].root].tv.ids[2]].tv.map = {"x", "y"}

\* C21: parse_nix_path splits at every colon that is not inside a URI-typed
\* path, for `prefix=path` and for bare `path` entries alike: the entries
\* of a NIX_PATH, joined by colons, parse back to the same entries.
C21_NixPath ==
  out.op = "parse_nix_path" => out.r.v = prog.entries

\* C24: for start >= 0, substring returns the part of s from start to
\* min(start + max(0, len), length(s)), empty when start >= length(s), with
\* the context of s, and never aborts; start < 0 is an error.
C24_Substring ==
  out.op \in {"substring", "substring_async"} =>
    IF prog.start < 0 THEN out.r.k = "Err"
    ELSE /\ out.r.k = "Ok"
         /\ out.r.v =
              VString(IF prog.start >= Len(prog.s) THEN ""
                      ELSE SubSeq(prog.s, prog.start + 1,
                                  min(prog.start + max(0, prog.len),
                                      Len(prog.s))),
                      prog.ctx)

\* C25: for every Hash h and every Encoding e, Hash::decode of
\* h.encode_with_type(e) returns Ok with a hash equal to h (same type, same
\* bytes), and decoding never aborts.
C25_HashRoundTrip ==
  out.op \in {"Hash::decode", "core::Hash::decode"} =>
    out.r.k = "Ok" /\ hash_eq(out.r.v, prog.h)

\* the successful calls of prog made by operation op
Calls(op) == {j \in 1..Len(prog) : prog[j].op = op /\ prog[j].r.k = "Ok"}

\* C22: any two successful load_file calls whose paths canonicalize to the
\* same file return the same ThunkId, and that file is read and parsed only
\* once, whatever the spelling of the path.
C22_LoadFileOnce ==
  /\ \A i, j \in Calls("load_file") :
       canonicalize(prog[i].path) = canonicalize(prog[j].path)
       => prog[i].r.v = prog[j].r.v
  /\ \A f \in DOMAIN FileSystem :
       Cardinality({i \in 1..Len(ev.reads) :
                      canonicalize(ev.reads[i]) = Ok(f)}) <= 1

\* the inline files registered before the session: <inline-0> .. <inline-n>
\* with n = ev.inlines - 1, the counter wrapping at 2^16
EarlierInline == {inline_name(n) : n \in 0..(min(ev.inlines, 65536) - 1)}

\* C23: every load_inline call returns a new unloaded thunk and registers a
\* file <inline-N> whose N differs from the N of every earlier call on the
\* Eval, for any number of calls.
C23_FreshInline ==
  \A j \in Calls("load_inline") :
    /\ ev.items[prog[j].r.v].loaded = FALSE
    /\ \A i \in 1..(j - 1) :
         prog[i].r.k = "Ok" => prog[i].r.v # prog[j].r.v
    /\ \A i \in Calls("load_inline") : i < j => prog[i].path # prog[j].path
    /\ prog[j].path \notin EarlierInline

\* C26: when the work of forcing a thunk demands the same thunk again
\* (`let x = x + 1; in x`), the nested force finds Blackhole and the force
\* ends with the "infinite loop" error instead of recursing without bound.
C26_Blackhole == Once("self_plus") => out.r = Err("infinite loop")

\* the thunks of a chain of Refs that starts at thunk i, at most n long
RECURSIVE RefChain(_, _)
RefChain(i, n) ==
  IF n = 0 \/ ~ev.items[i].loaded \/ ev.items[i].tv.k # "Ref" THEN {i}
  ELSE {i} \cup RefChain(ev.items[i].tv.t, n - 1)

\* C27: value_of never returns a Value::Ref: it follows Ref forwarding to a
\* Value that is not a Ref, forcing every unloaded thunk on the way, and
\* stops with "reference cycle" when the chain comes back to a thunk it
\* visited in this call; the loop always ends.
C27_RefFlattened ==
  /\ (out.op = "value_of" /\ out.r.k = "Ok") =>
       /\ out.r.v.k # "Ref"
       /\ \A i \in RefChain(out.t, Len(ev.items)) : ev.items[i].loaded
       /\ ev.items[out.r.at].tv = out.r.v
       /\ out.r.at \in RefChain(out.t, Len(ev.items))
  /\ Forced("ref_chain") => Yields(VInt(1))
  /\ Forced("ref_cycle") => out.r = Err("reference cycle")
  /\ Forced("ref_cycle2") => out.r = Err("reference cycle")

\* `let a = 1; b = a; c = b; in c` was forced: the root forwards through
\* more than two Refs to the thunk that holds the Int
C27_Witness ==
  /\ Forced("ref_chain")
  /\ Yields(VInt(1))
  /\ Cardinality(RefChain(out.t, Len(ev.items))) > 3

\* the thunk reached from thunk i by the attribute names, through loaded
\* sets and Refs; 0 when the way is not there
RECURSIVE Walk(_, _)
Walk(i, names) ==
  IF names = <<>> THEN i
  ELSE IF ~ev.items[i].loaded THEN 0
  ELSE IF ev.items[i].tv.k = "Ref" THEN Walk(ev.items[i].tv.t, names)
  ELSE IF ev.items[i].tv.k = "AttrSet" /\ names[1] \in DOMAIN ev.items[i].tv.map
  THEN Walk(ev.items[i].tv.map[names[1]], Tail(names))
  ELSE 0

\* the keys of the set that thunk i holds, through Refs; {"?"} when it holds
\* no set
RECURSIVE Keys(_)
Keys(i) ==
  IF i = 0 \/ ~ev.items[i].loaded THEN {"?"}
  ELSE IF ev.items[i].tv.k = "Ref" THEN Keys(ev.items[i].tv.t)
  ELSE IF ev.items[i].tv.k = "AttrSet" THEN DOMAIN ev.items[i].tv.map
  ELSE {"?"}

\* thunk i is the unevaluated thunk of the right-hand side e
Leaf(i, e) ==
  i # 0 /\ ~ev.items[i].loaded /\ Pending(i, e) /\ ev.runs[i] = 0

\* C28: Plain bindings with multi-component paths that share a prefix are
\* merged: the set reached by a prefix holds exactly the next names of all
\* bindings under that prefix, every leaf is the unevaluated thunk of its
\* right-hand side, and building the set never installs a Value twice
\* (`{ x.y.z = 1; x.y.w = 2; }.x.y` has exactly the keys z and w), in the
\* state the first force of the set leaves.
C28_NestedMerge ==
  /\ Once("nested_select") =>
       /\ out.r.k = "Ok"
       /\ out.r.v.k = "AttrSet"
       /\ DOMAIN out.r.v.map = {"z", "w"}
       /\ Leaf(out.r.v.map["z"], EInt(1))
       /\ Leaf(out.r.v.map["w"], EInt(2))
  /\ \A j \in 1..Len(prog) :
       (prog[j].name = "nested" /\ Once("nested")) =>
         /\ out.r.k = "Ok"
         /\ ev.runs[out.r.at] = 0
         /\ \A n \in 1..Len(prog[j].args) :
              Have(prog[j].args[n], LAMBDA path :
                /\ Leaf(Walk(prog[j].root, path), EInt(n))
                /\ \A l \in 0..(Len(path) - 1) :
                     Keys(Walk(prog[j].root, SubSeq(path, 1, l)))
                       = {prog[j].args[m][l + 1] :
                            m \in {m \in 1..Len(prog[j].args) :
                                     SubSeq(prog[j].args[m], 1, l)
                                       = SubSeq(path, 1, l)}})

\* { x.y.z = 1; x.v = 2; x.y.w = 3; } was forced and its x.y has the keys
\* z and w
C28_Witness ==
  /\ Once("nested")
  /\ out.r.k = "Ok"
  /\ prog[1].args = <<<<"x", "y", "z">>, <<"x", "v">>, <<"x", "y", "w">>>>
  /\ Keys(Walk(prog[1].root, <<"x", "y">>)) = {"z", "w"}
  /\ Keys(Walk(prog[1].root, <<"x">>)) = {"y", "v"}

\* the source texts whose evaluation fails, with the error of each
Failing ==
  ("sel_miss" :> "Missing attribute b")
    @@ ("sel_deep_miss" :> "Missing attribute b")
    @@ ("sel_throw_lhs" :> "throw") @@ ("sel_throw_mid" :> "throw")
    @@ ("sel_throw_name" :> "throw")

\* C30: when forcing a thunk fails with an error, no Value is installed and
\* the thunk stays unloaded with its original pending cell, so that forcing
\* it again runs the same work and reports the same error, not "infinite
\* loop".
C30_ErrorKeepsCell ==
  \A j \in 1..Len(prog) :
    (prog[j].name \in DOMAIN Failing /\ Forced(prog[j].name)) =>
      /\ out.r = Err(Failing[prog[j].name])
      /\ ~ev.items[prog[j].root].loaded
      /\ \E src \in SelectSources :
           src.name = prog[j].name /\ Pending(prog[j].root, src.e)

\* C29: under every interleaving of update and put_value of src/thunk.rs on
\* one thunk, a step that drops or writes the thunk's cell starts with the
\* thunk not loaded, and a thunk that is loaded keeps its Value: the
\* assertion and the write it guards are atomic for the other writers.
C29_CheckedWrite ==
  [][ /\ thunk'.tv # thunk.tv => ~thunk.loaded
      /\ hist'.stores <= 1 ]_vars

====
